---- MODULE Spec2Model ----
(***************************************************************************)
(* Ambientika integration for Home Assistant.                              *)
(*                                                                         *)
(* Spec        the data coordinator (AmbientikaHub; the cache, lock and    *)
(*             error handling of EnhancedAmbientikaHub are the same code)  *)
(*             together with the AmbientikaApiClient it drives: login,     *)
(*             concurrent _async_update_data calls, invalidate_cache and   *)
(*             the passing of loop time.                                   *)
(* SpecSelect  the four select entities of a device: async_select_option,  *)
(*             the change_mode request it sends and the refresh after it.  *)
(* SpecSensor  the four state sensors, read over the device lists that     *)
(*             coordinator.data can hold.                                  *)
(* SpecMaster  the change of a zone's master: the house configuration      *)
(*             built and posted, the alternative requests, the validation. *)
(* SpecZone    the ZoneMasterDeviceSelect entity of a zone: the calls of   *)
(*             async_select_option and the master change they start.       *)
(* SpecFlow    the config flow: the user step with its pairing attempt,    *)
(*             and the zone_sync step.                                     *)
(* SpecSync    AmbientikaZoneSync: concurrent async_sync_zones runs over   *)
(*             the floor and area registries.                              *)
(* SpecApply   the requests a master change sends, strategy by strategy.   *)
(***************************************************************************)
EXTENDS Integers, Sequences, FiniteSets, TLC

(***************************************************************************)
(* Bounds of the model.                                                    *)
(***************************************************************************)
NumTasks == 2          \* concurrent callers of _async_update_data
MaxTicks == 2          \* how often the loop clock advances
TickSeconds == 15      \* seconds the loop clock advances at a time
EnumSize == 2          \* members of each ambientika_py enum, by value 0..EnumSize-1
MaxSelects == 2        \* async_select_option calls in a run
NumDevices == 2        \* devices in coordinator.data when the sensors are read
MaxChanges == 1        \* _attempt_master_change calls in a run
MaxSubmits == 2        \* submissions of the user form in a config flow
MaxSyncs == 2          \* callers of async_sync_zones in a run

(***************************************************************************)
(* Program constants.                                                      *)
(***************************************************************************)
min_time_between_updates == 30
max_retries == 2
\* the enum members the code names, by value
OperatingMode_Auto == 1
FanSpeed_Low == 0
HumidityLevel_Normal == 1
LightSensorLevel_Off == 1
LightSensorLevel_NotAvailable == 0

VARIABLES
    now,                \* hass.loop.time()
    client,             \* hub.client: "None" or "Client"
    api_client,         \* client._api_client: "None" or "Authed"
    session,            \* client._session: "None" or "Open"
    lock_locked,        \* _rate_limit_lock._locked
    lock_waiters,       \* _rate_limit_lock._waiters, FIFO
    cached_data,        \* hub._cached_data
    last_update_time,   \* hub._last_update_time
    devices,            \* hub.devices (set by login)
    data,               \* coordinator.data: the last list an update returned
    cloud,              \* the device list the cloud API serves
    pc,                 \* position of login (0) and of each update call
    current_time,       \* local current_time of each update call
    retry_count,        \* local retry_count of _ensure_client
    wake_at,            \* when the asyncio.sleep of a call ends
    fetched,            \* local devices of each call (result of async_get_data)
    outcome,            \* how the last finished call ended
    hist,               \* history of the run, kept for the properties only
    sel,                \* the running or last async_select_option call
    shown,              \* the last state a state sensor reported
    house,              \* the house configuration the cloud holds
    zm,                 \* the running or last zone master change
    ent,                \* a ZoneMasterDeviceSelect entity and its last call
    names,              \* the name the cloud gives each device, by serial
    flow,               \* the config flow (AmbientikaFlowHandler) and its pairing
    zs,                 \* AmbientikaZoneSync, the registries and its runs
    ap                  \* the role-update strategies of a master change

vars == << now, client, api_client, session, lock_locked, lock_waiters,
           cached_data, last_update_time, devices, data, cloud,
           pc, current_time, retry_count, wake_at, fetched, outcome, hist,
           sel, shown, house, zm, ent, names, flow, zs, ap >>

\* the variables no action of the hub, of the device selects, of the sensors
\* or of the master change touches
later == << names, flow, zs, ap >>

\* the variables of the entities, which the hub never touches
others == << sel, shown, house, zm, ent, later >>

\* the variables of the hub's calls, which the entities never touch
calls == << now, client, api_client, session, lock_locked, lock_waiters, devices,
            pc, current_time, retry_count, wake_at, fetched, outcome, hist >>

\* an entity nothing has been asked of
Idle == [pc |-> "idle"]

Login == 0
Tasks == 1..NumTasks
Procs == {Login} \cup Tasks

(***************************************************************************)
(* Values.                                                                 *)
(***************************************************************************)
\* Python None / a device list
NoData == [present |-> FALSE, list |-> << >>]
SomeData(l) == [present |-> TRUE, list |-> l]

\* a setting inside a device status: absent, an int, a string or an enum member
NoValue == [kind |-> "none", v |-> 0]
IntValue(n) == [kind |-> "int", v |-> n]
StrValue(n) == [kind |-> "str", v |-> n]
EnumValue(n) == [kind |-> "enum", v |-> n]

\* a device without the current_status attribute
NoStatus == [present |-> FALSE, operating_mode |-> NoValue, fan_speed |-> NoValue,
             humidity_level |-> NoValue, light_sensor_level |-> NoValue]
MkStatus(om, fs, hl, ls) ==
    [present |-> TRUE, operating_mode |-> om, fan_speed |-> fs,
     humidity_level |-> hl, light_sensor_level |-> ls]

MkDevice(serial, zone, role, status) ==
    [serial_number |-> serial, zone_index |-> zone, role |-> role, current_status |-> status]

\* str.lower() on the role strings the API and the integration use
Lower(s) ==
    CASE s = "Master" -> "master"
      [] s = "SlaveEqualMaster" -> "slaveequalmaster"
      [] s = "SlaveOppositeMaster" -> "slaveoppositemaster"
      [] s = "Slave" -> "slave"
      [] s = "NotConfigured" -> "notconfigured"
      [] OTHER -> s

\* the device lists the cloud serves in Spec
HubClouds ==
    { << >>,
      << MkDevice("d1", 0, "Master", MkStatus(StrValue(1), StrValue(0), StrValue(1), StrValue(1))) >> }

Serials(l) == { l[i].serial_number : i \in 1..Len(l) }

(***************************************************************************)
(* AmbientikaApiClient                                                     *)
(***************************************************************************)
\* _cleanup: both references are dropped whatever close() does
Cleanup_NoClientReset(c) == [c EXCEPT !.session = "None"]
Cleanup(c) == [api_client |-> "None", session |-> "None"]

\* the exception leaving _ensure_client for each way authenticate can fail
EnsureClientRaises(how) ==
    IF how = "rejected" THEN "AmbientikaApiClientAuthenticationError"
    ELSE "AmbientikaApiClientError"

\* the except clauses of async_get_data: whatever is raised inside the try
\* (aiohttp.ClientError, timeouts, and every other Exception, the client's own
\* errors included) leaves as AmbientikaApiClientError
GetDataRaises(inner) ==
    CASE inner = "aiohttp.ClientError" -> "AmbientikaApiClientError"
      [] inner = "asyncio.TimeoutError" -> "AmbientikaApiClientError"
      [] OTHER -> "AmbientikaApiClientError"

\* async_get_data: the devices of all rooms of all houses, without a status
Flatten(houses) ==
    [ i \in 1..Len(houses) |-> [houses[i] EXCEPT !.current_status = NoStatus] ]

\* wait_time of the authentication retry
WaitTime(rc) == IF 5 + rc * 3 < 15 THEN 5 + rc * 3 ELSE 15

(***************************************************************************)
(* Hub                                                                     *)
(***************************************************************************)
\* the cache test of _async_update_data
CacheFresh_WrongLimit(cached, since) == cached.present /\ since < 10
CacheFresh(cached, since) == cached.present /\ since < min_time_between_updates

\* self._cached_data = None in both except clauses of _async_update_data
CacheAfterFailure_Kept(cached) == cached
CacheAfterFailure(cached) == NoData

\* the except clauses of _async_update_data
HubHandles(exc) ==
    IF exc = "AmbientikaApiClientAuthenticationError" THEN "ConfigEntryAuthFailed"
    ELSE "UpdateFailed"

\* asyncio.Lock.acquire succeeds at once only when unlocked and nobody waits
LockFree_NoCheck(t) == TRUE
LockFree(t) == ~lock_locked /\ (lock_waiters = << >> \/ Head(lock_waiters) = t)

(***************************************************************************)
(* History of the run, kept for the properties only.                       *)
(***************************************************************************)
InitHist ==
    [ lastFetchStart |-> -1,    \* start of the last update fetch, -1 when an update
                                \* failed or invalidate_cache was called since
      tooClose |-> FALSE,       \* two update fetches in a row, nothing failed or
                                \* invalidated between them, started < 30 s apart
      lastSuccessStart |-> -1,  \* start of the last update fetch that succeeded
      freshFetch |-> FALSE,     \* an update fetched although the cache held a list
                                \* and the last successful fetch started < 30 s ago
      afterFail |-> "none",     \* after a failed update: "pending" until the next
                                \* call holds the lock, then what that call did
      inval |-> FALSE,          \* invalidate_cache was called, no update started since
      mustFetch |-> -1,         \* the call that started first after an invalidate_cache
      afterRaise |-> FALSE,     \* async_get_data raised, not called again since
      mustAuth |-> -1,          \* the async_get_data call that came first after a raise
      authed |-> -1 ]           \* the running call that went through authenticate

\* how a call ended: its result, what made async_get_data raise, and whether
\* it was the first call started after an invalidate_cache
NoOutcome == [result |-> "none", cause |-> "none", forced |-> FALSE]
Outcome(r, c, f) == [result |-> r, cause |-> c, forced |-> f]

\* bookkeeping when caller p enters async_get_data
EnterGetData(h, p) ==
    [h EXCEPT !.afterRaise = FALSE,
              !.mustAuth = IF h.afterRaise THEN p ELSE -1,
              !.authed = -1]

\* bookkeeping when the call of p is over
CallOver(h, p) ==
    [h EXCEPT !.mustFetch = IF @ = p THEN -1 ELSE @,
              !.mustAuth = IF @ = p THEN -1 ELSE @,
              !.authed = IF @ = p THEN -1 ELSE @,
              !.afterFail = IF @ = "pending" THEN @ ELSE "none"]

(***************************************************************************)
(* Init                                                                    *)
(***************************************************************************)
\* the hub's calls after construction
CallsInit ==
    /\ now = 0
    /\ client = "None"
    /\ api_client = "None"
    /\ session = "None"
    /\ lock_locked = FALSE
    /\ lock_waiters = << >>
    /\ devices = << >>
    /\ pc = [p \in Procs |-> IF p = Login THEN "start" ELSE "idle"]
    /\ current_time = [p \in Procs |-> 0]
    /\ retry_count = [p \in Procs |-> 0]
    /\ wake_at = [p \in Procs |-> 0]
    /\ fetched = [p \in Procs |-> << >>]
    /\ outcome = NoOutcome
    /\ hist = InitHist

\* the hub logged in, no call running
CallsAtRest ==
    /\ now = 0
    /\ client = "Client"
    /\ api_client = "Authed"
    /\ session = "Open"
    /\ lock_locked = FALSE
    /\ lock_waiters = << >>
    /\ devices = << >>
    /\ pc = [p \in Procs |-> IF p = Login THEN "done" ELSE "idle"]
    /\ current_time = [p \in Procs |-> 0]
    /\ retry_count = [p \in Procs |-> 0]
    /\ wake_at = [p \in Procs |-> 0]
    /\ fetched = [p \in Procs |-> << >>]
    /\ outcome = NoOutcome
    /\ hist = InitHist

Init ==
    /\ CallsInit
    /\ cached_data = NoData
    /\ last_update_time = 0
    /\ data = NoData
    /\ cloud \in HubClouds
    /\ sel = Idle
    /\ shown = Idle
    /\ house = Idle
    /\ zm = Idle
    /\ ent = Idle
    /\ names = << >>
    /\ flow = Idle
    /\ zs = Idle
    /\ ap = Idle

(***************************************************************************)
(* async_get_data, as run by login (p = Login) or by an update call        *)
(***************************************************************************)
\* _ensure_client up to its first await: authenticate only without an api client
BeginGetData(p, h) ==
    /\ hist' = EnterGetData(h, p)
    /\ retry_count' = [retry_count EXCEPT ![p] = 0]
    /\ IF api_client = "None"
       THEN /\ session' = "Open"
            /\ pc' = [pc EXCEPT ![p] = "auth"]
       ELSE /\ session' = session
            /\ pc' = [pc EXCEPT ![p] = "houses"]

\* async_get_data raises: the caller's handler runs in the same step
GetDataFails(p, cause, inner) ==
    LET exc == GetDataRaises(inner)
        cl == Cleanup([api_client |-> api_client, session |-> session])
        h == [CallOver(hist, p) EXCEPT !.afterRaise = TRUE]
    IN
    /\ api_client' = cl.api_client
    /\ session' = cl.session
    /\ retry_count' = [retry_count EXCEPT ![p] = 0]
    /\ current_time' = [current_time EXCEPT ![p] = 0]
    /\ IF p = Login
       THEN \* login does not catch: async_setup_entry fails
            /\ pc' = [pc EXCEPT ![p] = "failed"]
            /\ outcome' = Outcome(exc, cause, FALSE)
            /\ hist' = h
            /\ UNCHANGED << client, cached_data, lock_locked >>
       ELSE \* the lock is released, then the except clause of the hub runs
            /\ pc' = [pc EXCEPT ![p] = "idle"]
            /\ outcome' = Outcome(HubHandles(exc), cause, hist.mustFetch = p)
            /\ lock_locked' = FALSE
            /\ cached_data' = CacheAfterFailure(cached_data)
            /\ client' = IF HubHandles(exc) = "ConfigEntryAuthFailed" THEN "None" ELSE client
            /\ hist' = [h EXCEPT !.lastFetchStart = -1, !.afterFail = "pending"]
    /\ UNCHANGED << others, now, lock_waiters, last_update_time, devices, data, cloud, wake_at,
                    fetched >>

\* authenticate returns Success
AuthOk(p) ==
    /\ pc[p] = "auth"
    /\ api_client' = "Authed"
    /\ pc' = [pc EXCEPT ![p] = "houses"]
    /\ hist' = [hist EXCEPT !.authed = p]
    /\ retry_count' = [retry_count EXCEPT ![p] = 0]
    /\ UNCHANGED << others, now, client, session, lock_locked, lock_waiters, cached_data,
                    last_update_time, devices, data, cloud, current_time, wake_at,
                    fetched, outcome >>

\* authenticate returns Failure: the credentials are rejected
AuthRejected(p) ==
    /\ pc[p] = "auth"
    /\ GetDataFails(p, "rejected", EnsureClientRaises("rejected"))

\* authenticate raises aiohttp.ClientError or asyncio.TimeoutError
AuthConnError(p) ==
    /\ pc[p] = "auth"
    /\ IF retry_count[p] + 1 < max_retries
       THEN /\ retry_count' = [retry_count EXCEPT ![p] = @ + 1]
            /\ wake_at' = [wake_at EXCEPT ![p] = now + WaitTime(retry_count[p] + 1)]
            /\ pc' = [pc EXCEPT ![p] = "backoff"]
            /\ UNCHANGED << others, now, client, api_client, session, lock_locked, lock_waiters,
                            cached_data, last_update_time, devices, data, cloud,
                            current_time, fetched, outcome, hist >>
       ELSE GetDataFails(p, "connection", EnsureClientRaises("connection"))

\* authenticate raises anything else
AuthOtherError(p) ==
    /\ pc[p] = "auth"
    /\ GetDataFails(p, "auth_exception", EnsureClientRaises("exception"))

\* asyncio.sleep(wait_time) is over: next authentication attempt
BackoffDone(p) ==
    /\ pc[p] = "backoff"
    /\ now >= wake_at[p]
    /\ pc' = [pc EXCEPT ![p] = "auth"]
    /\ wake_at' = [wake_at EXCEPT ![p] = 0]
    /\ UNCHANGED << others, now, client, api_client, session, lock_locked, lock_waiters,
                    cached_data, last_update_time, devices, data, cloud, current_time,
                    retry_count, fetched, outcome, hist >>

\* houses() returns Failure, or raises
HousesFail(p) ==
    /\ pc[p] = "houses"
    /\ \E inner \in {"Failure", "aiohttp.ClientError", "asyncio.TimeoutError", "Exception"} :
          GetDataFails(p, "houses", inner)

(***************************************************************************)
(* login                                                                   *)
(***************************************************************************)
\* login: create the client and call async_get_data
LoginStart ==
    /\ pc[Login] = "start"
    /\ client' = "Client"
    /\ BeginGetData(Login, hist)
    /\ UNCHANGED << others, now, api_client, lock_locked, lock_waiters, cached_data,
                    last_update_time, devices, data, cloud, current_time, wake_at,
                    fetched, outcome >>

\* houses() returns Success during login: hub.devices is set
LoginHousesOk ==
    /\ pc[Login] = "houses"
    /\ devices' = Flatten(cloud)
    /\ pc' = [pc EXCEPT ![Login] = "done"]
    /\ outcome' = Outcome("fetched", "none", FALSE)
    /\ hist' = CallOver(hist, Login)
    /\ UNCHANGED << others, now, client, api_client, session, lock_locked, lock_waiters,
                    cached_data, last_update_time, data, cloud, current_time, retry_count,
                    wake_at, fetched >>

(***************************************************************************)
(* _async_update_data                                                      *)
(***************************************************************************)
\* the body of `async with self._rate_limit_lock` up to its first await, run by
\* task t once it holds the lock; w is the waiter queue and h the history then
Enter(t, w, h) ==
    LET since == now - last_update_time
        fresh == /\ cached_data.present
                 /\ h.lastSuccessStart >= 0
                 /\ now - h.lastSuccessStart < 30
    IN
    /\ lock_waiters' = w
    /\ IF CacheFresh(cached_data, since)
       THEN \* return self._cached_data: the lock is released at once
            /\ pc' = [pc EXCEPT ![t] = "idle"]
            /\ outcome' = Outcome("cached", "none", h.mustFetch = t)
            /\ data' = cached_data
            /\ lock_locked' = FALSE
            /\ hist' = [CallOver(h, t) EXCEPT
                            !.afterFail = IF h.afterFail = "pending" THEN "cached" ELSE "none"]
            /\ UNCHANGED << session, retry_count, current_time >>
       ELSE \* await self.client.async_get_data()
            /\ lock_locked' = TRUE
            /\ current_time' = [current_time EXCEPT ![t] = now]
            /\ UNCHANGED << data, outcome >>
            /\ BeginGetData(t, [h EXCEPT !.afterFail = IF @ = "pending" THEN "fetched" ELSE @,
                                         !.freshFetch = @ \/ fresh,
                                         !.tooClose = \/ @
                                                      \/ /\ h.lastFetchStart >= 0
                                                         /\ now - h.lastFetchStart < 30,
                                         !.lastFetchStart = now])
    /\ UNCHANGED << others, now, client, api_client, cached_data, last_update_time, devices, cloud,
                    wake_at, fetched >>

\* bookkeeping when an update call starts
CallStarts(h, t) ==
    [h EXCEPT !.inval = FALSE,
              !.mustFetch = IF h.inval THEN t ELSE @]

\* the coordinator calls _async_update_data: the lock is taken at once when it
\* is free, otherwise the call queues on it
UpdateStart(t) ==
    /\ pc[Login] = "done"
    /\ client = "Client"
    /\ pc[t] = "idle"
    /\ IF LockFree(t)
       THEN Enter(t, lock_waiters, CallStarts(hist, t))
       ELSE /\ pc' = [pc EXCEPT ![t] = "waiting"]
            /\ lock_waiters' = Append(lock_waiters, t)
            /\ hist' = CallStarts(hist, t)
            /\ UNCHANGED << others, now, client, api_client, session, lock_locked, cached_data,
                            last_update_time, devices, data, cloud, current_time,
                            retry_count, wake_at, fetched, outcome >>

\* the released lock wakes its first waiter
LockAcquired(t) ==
    /\ pc[t] = "waiting"
    /\ LockFree(t)
    /\ Enter(t, SelectSeq(lock_waiters, LAMBDA x : x # t), hist)

\* houses() returns Success inside an update
UpdateHousesOk(t) ==
    /\ t \in Tasks
    /\ pc[t] = "houses"
    /\ fetched' = [fetched EXCEPT ![t] = Flatten(cloud)]
    /\ pc' = [pc EXCEPT ![t] = "status"]
    /\ UNCHANGED << others, now, client, api_client, session, lock_locked, lock_waiters,
                    cached_data, last_update_time, devices, data, cloud, current_time,
                    retry_count, wake_at, outcome, hist >>

\* device.status() for every fetched device (ok: those that return Success),
\* then the cache is filled and the list returned
UpdateStatusDone(t) ==
    /\ t \in Tasks
    /\ pc[t] = "status"
    /\ \E ok \in SUBSET Serials(fetched[t]) :
          LET devs == [ i \in 1..Len(fetched[t]) |->
                          IF fetched[t][i].serial_number \in ok
                          THEN [fetched[t][i] EXCEPT !.current_status = cloud[i].current_status]
                          ELSE fetched[t][i] ]
          IN /\ cached_data' = SomeData(devs)
             /\ data' = SomeData(devs)
    /\ last_update_time' = current_time[t]
    /\ lock_locked' = FALSE
    /\ pc' = [pc EXCEPT ![t] = "idle"]
    /\ outcome' = Outcome("fetched", "none", hist.mustFetch = t)
    /\ hist' = [CallOver(hist, t) EXCEPT !.lastSuccessStart = current_time[t]]
    /\ current_time' = [current_time EXCEPT ![t] = 0]
    /\ fetched' = [fetched EXCEPT ![t] = << >>]
    /\ UNCHANGED << others, now, client, api_client, session, lock_waiters, devices, cloud,
                    retry_count, wake_at >>

\* invalidate_cache
InvalidateCache ==
    /\ pc[Login] = "done"
    /\ cached_data' = NoData
    /\ last_update_time' = 0
    /\ hist' = [hist EXCEPT !.lastFetchStart = -1, !.inval = TRUE]
    /\ UNCHANGED << others, now, client, api_client, session, lock_locked, lock_waiters, devices,
                    data, cloud, pc, current_time, retry_count, wake_at, fetched, outcome >>

\* the loop clock advances
Tick ==
    /\ now + TickSeconds <= MaxTicks * TickSeconds
    /\ now' = now + TickSeconds
    /\ UNCHANGED << others, client, api_client, session, lock_locked, lock_waiters,
                    cached_data, last_update_time, devices, data, cloud, pc, current_time,
                    retry_count, wake_at, fetched, outcome, hist >>

Next ==
    \/ LoginStart
    \/ LoginHousesOk
    \/ \E p \in Procs : AuthOk(p)
    \/ \E p \in Procs : AuthRejected(p)
    \/ \E p \in Procs : AuthConnError(p)
    \/ \E p \in Procs : AuthOtherError(p)
    \/ \E p \in Procs : BackoffDone(p)
    \/ \E p \in Procs : HousesFail(p)
    \/ \E t \in Tasks : UpdateStart(t)
    \/ \E t \in Tasks : LockAcquired(t)
    \/ \E t \in Tasks : UpdateHousesOk(t)
    \/ \E t \in Tasks : UpdateStatusDone(t)
    \/ InvalidateCache
    \/ Tick

Spec == Init /\ [][Next]_vars

(***************************************************************************)
(* Properties of Spec                                                      *)
(***************************************************************************)
InSection == { t \in Tasks : pc[t] \in {"auth", "backoff", "houses", "status"} }

\* C1: an update that runs while the cache holds a list and fewer than 30 s
\* have passed since the last successful fetch (measured from the start of that
\* fetch, which is what _last_update_time records) returns the cached list
\* without calling the API; two update fetches in a row with no failure and no
\* invalidate_cache between them start at least 30 s apart.
CacheRateLimit ==
    /\ ~hist.freshFetch
    /\ ~hist.tooClose
    /\ outcome.result = "cached" => data.present

\* a cached return between two update fetches that started 30 s apart
CacheRateLimitWitness ==
    /\ outcome.result = "cached"
    /\ hist.lastSuccessStart >= 0
    /\ hist.lastFetchStart >= hist.lastSuccessStart + min_time_between_updates

\* C2: an update whose fetch fails (other than by rejected credentials) ends
\* with UpdateFailed and leaves the cache empty, and the call that holds the
\* lock next fetches instead of returning a cached list.
FailureClearsCache ==
    /\ outcome.result = "UpdateFailed" => ~cached_data.present
    /\ (pc[Login] = "done" /\ outcome.cause \in {"connection", "auth_exception", "houses"})
           => outcome.result = "UpdateFailed"
    /\ hist.afterFail # "cached"

\* the first call after a failed update is fetching
FailureClearsCacheWitness ==
    /\ hist.afterFail = "fetched"
    /\ InSection # {}

\* C3 (as claimed): an update during which the credentials are rejected ends
\* with ConfigEntryAuthFailed, the client dropped and the cache cleared.
AuthFailureHandled ==
    (pc[Login] = "done" /\ outcome.cause = "rejected")
        => /\ outcome.result = "ConfigEntryAuthFailed"
           /\ client = "None"
           /\ ~cached_data.present

\* C4 (as claimed): the first update started after invalidate_cache never
\* returns a cached list.
FetchAfterInvalidate ==
    ~(outcome.forced /\ outcome.result = "cached")

\* C5: at most one caller is inside the body guarded by _rate_limit_lock, and
\* the lock is held while one is.
MutualExclusion ==
    /\ Cardinality(InSection) <= 1
    /\ InSection # {} => lock_locked

\* one caller is fetching while another waits for the lock
MutualExclusionWitness ==
    \E t, u \in Tasks : pc[t] = "houses" /\ pc[u] = "waiting"

\* C6: after an async_get_data call that raised, _api_client and _session are
\* None, and the next call authenticates before it asks for the houses.
RaiseResetsClient ==
    /\ hist.afterRaise => (api_client = "None" /\ session = "None")
    /\ \A p \in Procs :
          (pc[p] \in {"houses", "status"} /\ hist.mustAuth = p) => hist.authed = p

\* the first call after a raise has authenticated again and asks for the houses
RaiseResetsClientWitness ==
    \E t \in Tasks : pc[t] = "houses" /\ hist.mustAuth = t /\ hist.authed = t

(***************************************************************************)
(* select.py: LightSensorLevelSelect, FanSpeedSelect, OperatingModeSelect  *)
(* and HumidityLevelSelect                                                 *)
(***************************************************************************)
Keys == {"operating_mode", "fan_speed", "humidity_level", "light_sensor_level"}

\* the members of an enum, by value; EnumSize stands for a name or value that
\* no member has
Members(k) == 0..(EnumSize - 1)

\* dict.get(key, default) on a device status
Get_AlwaysDefault(st, k, default) == default
Get(st, k, default) == IF st[k].kind = "none" THEN default ELSE st[k]

\* `if isinstance(x, int): x = Enum(x)`: ValueError when no member has the value
Unconvertible(k, val) == val.kind = "int" /\ val.v \notin Members(k)
ToMember(val) == IF val.kind = "int" THEN EnumValue(val.v) ELSE val

\* the device_status property: current_status of the entity's device in
\* coordinator.data, None without data, device or attribute
device_status(serial) ==
    IF ~data.present \/ data.list = << >> THEN NoStatus
    ELSE LET found == { i \in 1..Len(data.list) : data.list[i].serial_number = serial }
         IN IF found = {} THEN NoStatus
            ELSE data.list[CHOOSE i \in found : \A j \in found : i <= j].current_status

\* the settings each handler reads from the status, with their defaults
current_operating_mode(st) == Get(st, "operating_mode", EnumValue(OperatingMode_Auto))
current_fan_speed(st) == Get(st, "fan_speed", EnumValue(FanSpeed_Low))
current_humidity_level(st) == Get(st, "humidity_level", EnumValue(HumidityLevel_Normal))
current_light_sensor_level(st) == Get(st, "light_sensor_level", EnumValue(LightSensorLevel_Off))

\* mode_data of each handler
LightSensorLevelModeData(light_level, st) ==
    [light_sensor_level |-> EnumValue(light_level),
     operating_mode |-> ToMember(current_operating_mode(st)),
     fan_speed |-> ToMember(current_fan_speed(st)),
     humidity_level |-> ToMember(current_humidity_level(st))]
FanSpeedModeData(speed, st) ==
    [fan_speed |-> EnumValue(speed),
     operating_mode |-> ToMember(current_operating_mode(st)),
     light_sensor_level |-> ToMember(current_light_sensor_level(st)),
     humidity_level |-> ToMember(current_humidity_level(st))]
OperatingModeModeData(mode, st) ==
    [operating_mode |-> EnumValue(mode),
     fan_speed |-> ToMember(current_fan_speed(st)),
     light_sensor_level |-> ToMember(current_light_sensor_level(st)),
     humidity_level |-> ToMember(current_humidity_level(st))]
HumidityLevelModeData(level, st) ==
    [humidity_level |-> EnumValue(level),
     operating_mode |-> ToMember(current_operating_mode(st)),
     fan_speed |-> ToMember(current_fan_speed(st)),
     light_sensor_level |-> ToMember(current_light_sensor_level(st))]

NoCall == [pc |-> "idle", n |-> 0, key |-> "none", serial |-> "none", option |-> 0,
           requests |-> << >>]

\* async_select_option up to `await device_obj.change_mode(mode_data)`; raises
\* says that one of the three conversions fails, which the handler's except
\* clause logs
SelectOption(key, serial, option, raises, mode_data) ==
    LET st == device_status(serial)
        found == data.present /\ serial \in Serials(data.list)
        sends == option \in Members(key) /\ found /\ st.present /\ ~raises
    IN
    /\ sel.pc = "idle"
    /\ sel.n < MaxSelects
    /\ sel' = [pc |-> IF sends THEN "change_mode" ELSE "idle",
               n |-> sel.n + 1, key |-> key, serial |-> serial, option |-> option,
               requests |-> IF sends THEN << [serial |-> serial, mode |-> mode_data] >>
                            ELSE << >>]
    /\ UNCHANGED << calls, ent, later, cached_data, last_update_time, data, cloud, shown, house, zm >>

LightSensorLevelSelect_async_select_option(serial, option) ==
    LET st == device_status(serial) IN
    SelectOption("light_sensor_level", serial, option,
                 \/ Unconvertible("operating_mode", current_operating_mode(st))
                 \/ Unconvertible("fan_speed", current_fan_speed(st))
                 \/ Unconvertible("humidity_level", current_humidity_level(st)),
                 LightSensorLevelModeData(option, st))

FanSpeedSelect_async_select_option(serial, option) ==
    LET st == device_status(serial) IN
    SelectOption("fan_speed", serial, option,
                 \/ Unconvertible("operating_mode", current_operating_mode(st))
                 \/ Unconvertible("light_sensor_level", current_light_sensor_level(st))
                 \/ Unconvertible("humidity_level", current_humidity_level(st)),
                 FanSpeedModeData(option, st))

OperatingModeSelect_async_select_option(serial, option) ==
    LET st == device_status(serial) IN
    SelectOption("operating_mode", serial, option,
                 \/ Unconvertible("fan_speed", current_fan_speed(st))
                 \/ Unconvertible("light_sensor_level", current_light_sensor_level(st))
                 \/ Unconvertible("humidity_level", current_humidity_level(st)),
                 OperatingModeModeData(option, st))

HumidityLevelSelect_async_select_option(serial, option) ==
    LET st == device_status(serial) IN
    SelectOption("humidity_level", serial, option,
                 \/ Unconvertible("operating_mode", current_operating_mode(st))
                 \/ Unconvertible("fan_speed", current_fan_speed(st))
                 \/ Unconvertible("light_sensor_level", current_light_sensor_level(st)),
                 HumidityLevelModeData(option, st))

\* the cloud's device list after it applied a change_mode request
Applied(list, req) ==
    [ i \in 1..Len(list) |->
        IF list[i].serial_number = req.serial
        THEN [list[i] EXCEPT !.current_status =
                  MkStatus(req.mode.operating_mode, req.mode.fan_speed,
                           req.mode.humidity_level, req.mode.light_sensor_level)]
        ELSE list[i] ]

\* change_mode returns Success, returns Failure, or raises
ChangeModeReturns ==
    /\ sel.pc = "change_mode"
    /\ \E res \in {"Success", "Failure", "raises"} :
          IF res = "Success"
          THEN /\ cloud' = Applied(cloud, sel.requests[1])
               /\ sel' = [sel EXCEPT !.pc = "sleep"]
          ELSE /\ cloud' = cloud
               /\ sel' = [sel EXCEPT !.pc = "idle"]
    /\ UNCHANGED << calls, ent, later, cached_data, last_update_time, data, shown, house, zm >>

\* after asyncio.sleep(3): invalidate_cache, then async_request_refresh, whose
\* update fetches the devices and the status of each (ok: those that answer)
\* or fails and leaves coordinator.data as it was
AfterSleep ==
    /\ sel.pc = "sleep"
    /\ last_update_time' = 0
    /\ \/ \E ok \in SUBSET Serials(cloud) :
             LET devs == [ i \in 1..Len(cloud) |->
                             IF cloud[i].serial_number \in ok THEN cloud[i]
                             ELSE [cloud[i] EXCEPT !.current_status = NoStatus] ]
             IN /\ cached_data' = SomeData(devs)
                /\ data' = SomeData(devs)
       \/ /\ cached_data' = NoData
          /\ data' = data
    /\ sel' = [NoCall EXCEPT !.n = sel.n]
    /\ UNCHANGED << calls, ent, later, cloud, shown, house, zm >>

\* the values a status can hold for a setting: none, a member, or an int (the
\* greatest that is the value of a member, and the least that is not)
StatusValues(k) ==
    {NoValue} \cup { EnumValue(m) : m \in Members(k) }
              \cup { IntValue(m) : m \in (EnumSize - 1)..EnumSize }

\* the statuses coordinator.data starts with for the device of the entities
SelectStatuses ==
    {NoStatus} \cup
    { MkStatus(om, fs, hl, ls) : om \in StatusValues("operating_mode"),
                                 fs \in StatusValues("fan_speed"),
                                 hl \in StatusValues("humidity_level"),
                                 ls \in StatusValues("light_sensor_level") }

\* another device of the account, listed first
OtherDevice ==
    MkDevice("d2", 0, "Master", MkStatus(EnumValue(0), EnumValue(1), EnumValue(0), EnumValue(0)))

SelectSerials == {"d1"}

SelectInit ==
    /\ CallsAtRest
    /\ cloud = << OtherDevice,
                  MkDevice("d1", 0, "SlaveOppositeMaster",
                           MkStatus(EnumValue(1), EnumValue(0), EnumValue(1), EnumValue(1))) >>
    /\ \/ data = NoData
       \/ data = SomeData(<< OtherDevice >>)
       \/ \E st \in SelectStatuses :
             data = SomeData(<< OtherDevice, MkDevice("d1", 0, "SlaveOppositeMaster", st) >>)
    /\ cached_data = data
    /\ last_update_time = 0
    /\ sel = NoCall
    /\ shown = Idle
    /\ house = Idle
    /\ zm = Idle
    /\ ent = Idle
    /\ names = << >>
    /\ flow = Idle
    /\ zs = Idle
    /\ ap = Idle

SelectNext ==
    \/ \E serial \in SelectSerials, option \in 0..EnumSize :
          LightSensorLevelSelect_async_select_option(serial, option)
    \/ \E serial \in SelectSerials, option \in 0..EnumSize :
          FanSpeedSelect_async_select_option(serial, option)
    \/ \E serial \in SelectSerials, option \in 0..EnumSize :
          OperatingModeSelect_async_select_option(serial, option)
    \/ \E serial \in SelectSerials, option \in 0..EnumSize :
          HumidityLevelSelect_async_select_option(serial, option)
    \/ ChangeModeReturns
    \/ AfterSleep

SpecSelect == SelectInit /\ [][SelectNext]_vars

(***************************************************************************)
(* Properties of SpecSelect                                                *)
(***************************************************************************)
\* the status last fetched for a device: the one coordinator.data holds
FetchedStatus(serial) ==
    LET i == CHOOSE i \in 1..Len(data.list) : data.list[i].serial_number = serial
    IN data.list[i].current_status

DefaultSetting(k) ==
    CASE k = "operating_mode" -> OperatingMode_Auto
      [] k = "fan_speed" -> FanSpeed_Low
      [] k = "humidity_level" -> HumidityLevel_Normal
      [] k = "light_sensor_level" -> LightSensorLevel_Off

\* the call was given the name of a member, its device is in coordinator.data
\* with a status, and every int in that status is the value of a member
Servable ==
    /\ sel.option \in Members(sel.key)
    /\ data.present
    /\ sel.serial \in Serials(data.list)
    /\ FetchedStatus(sel.serial).present
    /\ \A k \in Keys \ {sel.key} :
          LET had == FetchedStatus(sel.serial)[k]
          IN had.kind = "int" => had.v \in Members(k)

NoState == [kind |-> "None", of |-> NoValue]
NameOf(val) == [kind |-> "name", of |-> val]
StrOf(val) == [kind |-> "str", of |-> val]

\* SensorBase.device_status
SensorBase_device_status(serial) ==
    IF ~data.present \/ data.list = << >> THEN NoStatus
    ELSE LET found == { i \in 1..Len(data.list) : data.list[i].serial_number = serial }
         IN IF found = {} THEN NoStatus
            ELSE data.list[CHOOSE i \in found : \A j \in found : i <= j].current_status

\* _get_master_device_status: the status of the first device of the list that
\* is in the zone of this device and whose role, lower-cased, is master
get_master_device_status_AnyZone(serial) ==
    IF ~data.present \/ data.list = << >> THEN NoStatus
    ELSE LET masters == { i \in 1..Len(data.list) : Lower(data.list[i].role) = "master" }
         IN IF serial \notin Serials(data.list) \/ masters = {} THEN NoStatus
            ELSE data.list[CHOOSE i \in masters : \A j \in masters : i <= j].current_status
get_master_device_status(serial) ==
    IF ~data.present \/ data.list = << >> THEN NoStatus
    ELSE LET found == { i \in 1..Len(data.list) : data.list[i].serial_number = serial }
         IN IF found = {} THEN NoStatus
            ELSE LET this_device_zone ==
                         data.list[CHOOSE i \in found : \A j \in found : i <= j].zone_index
                     masters == { i \in 1..Len(data.list) :
                                     /\ data.list[i].zone_index = this_device_zone
                                     /\ Lower(data.list[i].role) = "master" }
                 IN IF masters = {} THEN NoStatus
                    ELSE data.list[CHOOSE i \in masters : \A j \in masters : i <= j].current_status

\* _is_master_device
is_master_device(serial) ==
    /\ data.present
    /\ \E i \in 1..Len(data.list) :
          /\ data.list[i].serial_number = serial
          /\ \A j \in 1..(i - 1) : data.list[j].serial_number # serial
          /\ Lower(data.list[i].role) = "master"

\* the status a state sensor reads
StatusRead(serial) ==
    IF is_master_device(serial) THEN SensorBase_device_status(serial)
    ELSE get_master_device_status(serial)

\* LightSensorLevelStateSensor.state matches a member by `level.value == raw`,
\* which no Enum member satisfies
LightSensorLevelStateSensor_state(serial) ==
    LET status == StatusRead(serial)
        raw == status.light_sensor_level
    IN IF ~status.present \/ raw.kind = "none" THEN NoState
       ELSE IF raw.kind = "int" /\ raw.v \in Members("light_sensor_level") THEN NameOf(raw)
       ELSE StrOf(raw)

\* the other three match by `member.value == raw or member == raw`
FanSpeedStateSensor_state(serial) ==
    LET status == StatusRead(serial)
        raw == status.fan_speed
    IN IF ~status.present \/ raw.kind = "none" THEN NoState
       ELSE IF raw.kind = "enum" \/ (raw.kind = "int" /\ raw.v \in Members("fan_speed"))
            THEN NameOf(raw)
       ELSE StrOf(raw)

OperatingModeStateSensor_state(serial) ==
    LET status == StatusRead(serial)
        raw == status.operating_mode
    IN IF ~status.present \/ raw.kind = "none" THEN NoState
       ELSE IF raw.kind = "enum" \/ (raw.kind = "int" /\ raw.v \in Members("operating_mode"))
            THEN NameOf(raw)
       ELSE StrOf(raw)

HumidityLevelStateSensor_state(serial) ==
    LET status == StatusRead(serial)
        raw == status.humidity_level
    IN IF ~status.present \/ raw.kind = "none" THEN NoState
       ELSE IF raw.kind = "enum" \/ (raw.kind = "int" /\ raw.v \in Members("humidity_level"))
            THEN NameOf(raw)
       ELSE StrOf(raw)

\* Home Assistant reads the state of a state sensor; a run follows one read of
\* one sensor, a read changing nothing that another read depends on
ReadState(key, serial, state) ==
    /\ shown = Idle
    /\ shown' = [pc |-> "read", key |-> key, serial |-> serial, state |-> state]
    /\ UNCHANGED << calls, ent, later, cached_data, last_update_time, data, cloud, sel, house, zm >>

ReadLightSensorLevelState(serial) ==
    ReadState("light_sensor_level", serial, LightSensorLevelStateSensor_state(serial))
ReadFanSpeedState(serial) ==
    ReadState("fan_speed", serial, FanSpeedStateSensor_state(serial))
ReadOperatingModeState(serial) ==
    ReadState("operating_mode", serial, OperatingModeStateSensor_state(serial))
ReadHumidityLevelState(serial) ==
    ReadState("humidity_level", serial, HumidityLevelStateSensor_state(serial))

\* the values the settings of the drawn statuses hold
SensorValueSeq ==
    << NoValue, IntValue(EnumSize - 1), IntValue(EnumSize) >>
        \o [ m \in 1..EnumSize |-> EnumValue(m - 1) ]
Rot(n, k) == SensorValueSeq[((n + k) % Len(SensorValueSeq)) + 1]
\* a different value under each key
SensorStatuses ==
    {NoStatus} \cup { MkStatus(Rot(n, 0), Rot(n, 1), Rot(n, 2), Rot(n, 3)) :
                         n \in 0..(Len(SensorValueSeq) - 1) }

SerialOf(i) == << "d1", "d2", "d3", "d4" >>[i]
SensorRoles == {"Master", "master", "SlaveOppositeMaster"}
\* the lists coordinator.data can hold: NumDevices devices in two zones
SensorLists ==
    { [ i \in 1..NumDevices |-> MkDevice(SerialOf(i), f[i].zone, f[i].role, f[i].status) ] :
        f \in [ 1..NumDevices -> [zone : 0..1, role : SensorRoles, status : SensorStatuses] ] }
\* the serials of the entities: the devices of the list and one that left it
SensorSerials == { SerialOf(i) : i \in 1..(NumDevices + 1) }

SensorInit ==
    /\ CallsAtRest
    /\ data \in {NoData, SomeData(<< >>)} \cup { SomeData(l) : l \in SensorLists }
    /\ cached_data = data
    /\ last_update_time = 0
    /\ cloud = << >>
    /\ shown = Idle
    /\ sel = Idle
    /\ house = Idle
    /\ zm = Idle
    /\ ent = Idle
    /\ names = << >>
    /\ flow = Idle
    /\ zs = Idle
    /\ ap = Idle

SensorNext ==
    \/ \E serial \in SensorSerials : ReadLightSensorLevelState(serial)
    \/ \E serial \in SensorSerials : ReadFanSpeedState(serial)
    \/ \E serial \in SensorSerials : ReadOperatingModeState(serial)
    \/ \E serial \in SensorSerials : ReadHumidityLevelState(serial)

SpecSensor == SensorInit /\ [][SensorNext]_vars

(***************************************************************************)
(* Properties of SpecSensor                                                *)
(***************************************************************************)
\* the devices of coordinator.data that are master of a zone
MastersOf(zone) ==
    { i \in 1..Len(data.list) :
         data.list[i].zone_index = zone /\ Lower(data.list[i].role) = "master" }

\* the state shows the setting `key` of status st, or nothing when st lacks it
Shows(state, key, st) ==
    IF ~st.present \/ st[key].kind = "none" THEN state = NoState
    ELSE state.kind # "None" /\ state.of = st[key]

\* C8: a state sensor of a device that is in coordinator.data shows the
\* device's own setting when the device is a master, shows nothing when the
\* device is no master and its zone has none, and otherwise shows the setting
\* of a master of its zone.
StateSensorShowsZoneMaster ==
    (shown.pc = "read" /\ data.present /\ shown.serial \in Serials(data.list)) =>
        LET i == CHOOSE i \in 1..Len(data.list) : data.list[i].serial_number = shown.serial
            own == data.list[i]
            masters == MastersOf(own.zone_index)
        IN IF i \in masters THEN Shows(shown.state, shown.key, own.current_status)
           ELSE IF masters = {} THEN shown.state = NoState
           ELSE \E j \in masters :
                   Shows(shown.state, shown.key, data.list[j].current_status)

\* a sensor of a non-master device shows a setting of the master of its zone
\* that the device's own status does not hold
StateSensorShowsZoneMasterWitness ==
    /\ shown.pc = "read"
    /\ data.present
    /\ shown.serial \in Serials(data.list)
    /\ ~is_master_device(shown.serial)
    /\ shown.state # NoState
    /\ shown.state.of # SensorBase_device_status(shown.serial)[shown.key]

(***************************************************************************)
(* zone_master_select.py: the change of a zone's master                    *)
(***************************************************************************)
\* _map_internal_role_to_api
map_internal_role_to_api(internal_role) ==
    LET normalized_role == Lower(internal_role)
    IN CASE normalized_role = "master" -> "Master"
         [] normalized_role = "slave" -> "SlaveOppositeMaster"
         [] normalized_role = "slaveequalmaster" -> "SlaveEqualMaster"
         [] normalized_role = "slaveoppositemaster" -> "SlaveOppositeMaster"
         [] normalized_role = "notconfigured" -> "NotConfigured"
         [] OTHER -> "SlaveOppositeMaster"

\* the role a device of the zones array gets
ZoneDeviceRole(device_serial, current_role, old_master_serial, new_master_serial, orig) ==
    IF device_serial = new_master_serial THEN "Master"
    ELSE IF device_serial = old_master_serial THEN map_internal_role_to_api(orig)
    ELSE map_internal_role_to_api(current_role)

\* the role a device of the rooms array gets
RoomDeviceRole_NoSwap(device_serial, current_role, old_master_serial, new_master_serial, orig) ==
    IF device_serial = new_master_serial THEN "Master"
    ELSE map_internal_role_to_api(current_role)
RoomDeviceRole(device_serial, current_role, old_master_serial, new_master_serial, orig) ==
    IF device_serial = new_master_serial THEN "Master"
    ELSE IF device_serial = old_master_serial THEN map_internal_role_to_api(orig)
    ELSE map_internal_role_to_api(current_role)

\* _create_house_config_with_updated_roles; zones is empty when the house has none
create_house_config_with_updated_roles(h, old_master_serial, new_master_serial, orig) ==
    [ zones |->
        [ z \in 1..Len(h.zones) |->
            [ rooms |->
                [ r \in 1..Len(h.zones[z].rooms) |->
                    [ devices |->
                        [ d \in 1..Len(h.zones[z].rooms[r].devices) |->
                            LET zone_device == h.zones[z].rooms[r].devices[d]
                            IN [ serialNumber |-> zone_device.serialNumber,
                                 role |-> ZoneDeviceRole(zone_device.serialNumber,
                                                         zone_device.role, old_master_serial,
                                                         new_master_serial, orig) ] ] ] ] ] ],
      rooms |->
        [ r \in 1..Len(h.rooms) |->
            [ id |-> h.rooms[r].id,
              devices |->
                [ d \in 1..Len(h.rooms[r].devices) |->
                    LET device == h.rooms[r].devices[d]
                    IN [ serialNumber |-> device.serial_number,
                         roomId |-> h.rooms[r].id,
                         zoneIndex |-> device.zone_index,
                         role |-> RoomDeviceRole(device.serial_number, device.role,
                                                 old_master_serial, new_master_serial,
                                                 orig) ] ] ] ] ]

\* _find_target_house: the house has the room of one of the two devices
find_target_house(h, old_master_device, new_master_device) ==
    LET room_ids_in_house == { h.rooms[r].id : r \in 1..Len(h.rooms) }
    IN \/ old_master_device.room_id \in room_ids_in_house
       \/ new_master_device.room_id \in room_ids_in_house

\* the role validation of _validate_role_change on the list it reads
validate_role_change_NoCheck(list, new_master_serial, old_master_serial, expected_old_role) ==
    TRUE
validate_role_change(list, new_master_serial, old_master_serial, expected_old_role) ==
    LET RoleOf(serial) ==
            IF serial \in Serials(list)
            THEN Lower(list[CHOOSE i \in 1..Len(list) : list[i].serial_number = serial].role)
            ELSE ""
        new_master_role == RoleOf(new_master_serial)
        old_master_role == IF old_master_serial = new_master_serial THEN ""
                           ELSE RoleOf(old_master_serial)
        expected == Lower(expected_old_role)
        role_matches ==
            \/ old_master_role = expected
            \/ /\ expected \in {"slave", "slaveoppositemaster"}
               /\ old_master_role \in {"slave", "slaveoppositemaster"}
            \/ /\ expected = "slaveequalmaster"
               /\ old_master_role \in {"slaveequalmaster", "slave"}
    IN IF list = << >> THEN FALSE
       ELSE IF new_master_role # "master" THEN FALSE
       ELSE IF ~role_matches THEN new_master_role = "master"
       ELSE TRUE

\* the devices of a house as the hub lists them
DevicesOf(h) ==
    LET RoomDevices(r) ==
            [ d \in 1..Len(h.rooms[r].devices) |->
                [ serial_number |-> h.rooms[r].devices[d].serial_number,
                  zone_index |-> h.rooms[r].devices[d].zone_index,
                  role |-> h.rooms[r].devices[d].role,
                  room_id |-> h.rooms[r].id,
                  current_status |-> NoStatus ] ]
        Upto[r \in 0..Len(h.rooms)] ==
            IF r = 0 THEN << >> ELSE Upto[r - 1] \o RoomDevices(r)
    IN Upto[Len(h.rooms)]

\* the house after the cloud gave the devices in DOMAIN roles those roles
WithRoles(h, roles) ==
    [ zones |->
        [ z \in 1..Len(h.zones) |->
            [ rooms |->
                [ r \in 1..Len(h.zones[z].rooms) |->
                    [ devices |->
                        [ d \in 1..Len(h.zones[z].rooms[r].devices) |->
                            LET dev == h.zones[z].rooms[r].devices[d]
                            IN IF dev.serialNumber \in DOMAIN roles
                               THEN [dev EXCEPT !.role = roles[dev.serialNumber]]
                               ELSE dev ] ] ] ] ],
      rooms |->
        [ r \in 1..Len(h.rooms) |->
            [ id |-> h.rooms[r].id,
              devices |->
                [ d \in 1..Len(h.rooms[r].devices) |->
                    LET dev == h.rooms[r].devices[d]
                    IN IF dev.serial_number \in DOMAIN roles
                       THEN [dev EXCEPT !.role = roles[dev.serial_number]]
                       ELSE dev ] ] ] ]

\* the roles a configuration asks for, by serial
RolesIn(config) ==
    LET all == DevicesOf([rooms |-> [ r \in 1..Len(config.rooms) |->
                              [ id |-> config.rooms[r].id,
                                devices |-> [ d \in 1..Len(config.rooms[r].devices) |->
                                    [ serial_number |-> config.rooms[r].devices[d].serialNumber,
                                      zone_index |-> 0,
                                      role |-> config.rooms[r].devices[d].role ] ] ] ],
                          zones |-> << >>])
    IN [ serial \in Serials(all) |->
           all[CHOOSE i \in 1..Len(all) : all[i].serial_number = serial].role ]

NoChange == [pc |-> "idle", n |-> 0, old |-> "none", new |-> "none", original |-> "",
             objects |-> << >>, config |-> [zones |-> << >>, rooms |-> << >>],
             seen |-> NoData, result |-> "none"]

\* the call returns
Returns(value) == [zm EXCEPT !.pc = "idle", !.result = value]

\* _attempt_master_change up to `await api_client.houses()`
AttemptMasterChange(old_master_serial, new_master_serial) ==
    LET list == data.list
        found(serial) == { i \in 1..Len(list) : list[i].serial_number = serial }
        started == [NoChange EXCEPT !.n = zm.n + 1, !.old = old_master_serial,
                                    !.new = new_master_serial]
    IN
    /\ zm.pc = "idle"
    /\ zm.n < MaxChanges
    /\ IF \/ ~data.present
          \/ found(old_master_serial) = {}
          \/ found(new_master_serial) = {}
          \/ old_master_serial = new_master_serial
       THEN zm' = [started EXCEPT !.result = "False"]
       ELSE LET new_master_original_role ==
                    Lower(list[CHOOSE i \in found(new_master_serial) : TRUE].role)
            IN IF new_master_original_role = "" \/ api_client = "None"
               THEN zm' = [started EXCEPT !.result = "False"]
               ELSE zm' = [started EXCEPT !.pc = "houses",
                                          !.original = new_master_original_role,
                                          !.objects = list]
    /\ UNCHANGED << calls, later, cached_data, last_update_time, data, cloud, sel, shown, house >>

\* houses() returns; with a house, the configuration is built and posted
HousesReturns ==
    /\ zm.pc = "houses"
    /\ \E res \in {"Failure", "raises", "no houses", "houses"} :
          LET objects == zm.objects
              Obj(serial) ==
                  objects[CHOOSE i \in 1..Len(objects) : objects[i].serial_number = serial]
          IN IF res = "houses" /\ find_target_house(house, Obj(zm.old), Obj(zm.new))
             THEN zm' = [zm EXCEPT !.pc = "post",
                                   !.config = create_house_config_with_updated_roles(
                                                  house, zm.old, zm.new, zm.original)]
             ELSE zm' = Returns("False")
    /\ UNCHANGED << calls, later, cached_data, last_update_time, data, cloud, sel, shown, house >>

\* POST Device/apply-config returns; the cloud applies the configuration or,
\* as the handler itself allows for, reports Success and leaves the roles
PostReturns ==
    /\ zm.pc = "post"
    /\ \E res \in {"Success", "Failure", "raises"} :
          IF res = "Success"
          THEN /\ zm' = [zm EXCEPT !.pc = "alternatives"]
               /\ house' \in {house, WithRoles(house, RolesIn(zm.config))}
          ELSE /\ zm' = Returns("False")
               /\ house' = house
    /\ UNCHANGED << calls, later, cached_data, last_update_time, data, cloud, sel, shown >>

\* _try_alternative_role_update: the per-device, PUT and per-zone requests, none
\* of which changes what _apply_house_device_configuration returns. The cloud
\* keeps the roles, or has taken the new master's role only (the old master's
\* request and the rollback failed), or both roles.
AlternativeUpdates ==
    /\ zm.pc = "alternatives"
    /\ house' \in { house,
                    WithRoles(house, zm.new :> "Master"),
                    WithRoles(house, (zm.new :> "Master")
                                     @@ (zm.old :> map_internal_role_to_api(zm.original))) }
    /\ zm' = [zm EXCEPT !.pc = "validate"]
    /\ UNCHANGED << calls, later, cached_data, last_update_time, data, cloud, sel, shown >>

\* _validate_role_change reads coordinator.data after its sleep, and
\* _attempt_master_change returns what it found
ValidateRoleChange ==
    /\ zm.pc = "validate"
    /\ zm' = [zm EXCEPT !.pc = "idle",
                        !.seen = data,
                        !.result = IF /\ data.present
                                      /\ validate_role_change(data.list, zm.new, zm.old,
                                                              zm.original)
                                   THEN "True" ELSE "False"]
    /\ UNCHANGED << calls, later, cached_data, last_update_time, data, cloud, sel, shown, house >>

\* a coordinator refresh (requested or periodic) fetches the devices
CoordinatorRefresh ==
    /\ data # SomeData(DevicesOf(house))
    /\ data' = SomeData(DevicesOf(house))
    /\ cached_data' = data'
    /\ UNCHANGED << calls, later, last_update_time, cloud, sel, shown, house, zm >>

HouseRoles == {"Master", "SlaveEqualMaster", "SlaveOppositeMaster", "NotConfigured", "Slave"}

\* a house of two rooms and three devices, with or without a zones array
MasterHouses ==
    { [ zones |-> IF withZones
                  THEN << [ rooms |-> << [ devices |->
                               << [serialNumber |-> "d1", role |-> r1],
                                  [serialNumber |-> "d2", role |-> r2],
                                  [serialNumber |-> "d3", role |-> r3] >> ] >> ] >>
                  ELSE << >>,
        rooms |-> << [ id |-> 1,
                       devices |-> << [serial_number |-> "d1", zone_index |-> 0, role |-> r1],
                                      [serial_number |-> "d2", zone_index |-> 0, role |-> r2] >> ],
                     [ id |-> 2,
                       devices |-> << [serial_number |-> "d3", zone_index |-> 0, role |-> r3] >> ]
                  >> ] :
        r1 \in HouseRoles, r2 \in HouseRoles, r3 \in HouseRoles, withZones \in BOOLEAN }

MasterSerials == {"d1", "d2", "d3", "d4"}

MasterInit ==
    /\ CallsAtRest
    /\ house \in MasterHouses
    /\ data = SomeData(DevicesOf(house))
    /\ cached_data = data
    /\ last_update_time = 0
    /\ cloud = << >>
    /\ zm = NoChange
    /\ sel = Idle
    /\ shown = Idle
    /\ ent = Idle
    /\ names = << >>
    /\ flow = Idle
    /\ zs = Idle
    /\ ap = Idle

\* _attempt_master_change called on its own, with any two serials
MasterNext ==
    \/ \E old_master_serial \in MasterSerials, new_master_serial \in MasterSerials :
          AttemptMasterChange(old_master_serial, new_master_serial) /\ UNCHANGED ent
    \/ HousesReturns /\ UNCHANGED ent
    \/ PostReturns /\ UNCHANGED ent
    \/ AlternativeUpdates /\ UNCHANGED ent
    \/ ValidateRoleChange /\ UNCHANGED ent
    \/ CoordinatorRefresh /\ UNCHANGED ent

SpecMaster == MasterInit /\ [][MasterNext]_vars

(***************************************************************************)
(* Properties of SpecMaster                                                *)
(***************************************************************************)
\* the API name of a role, after the module's "Device Role Mapping"
ApiName(role) ==
    CASE role \in {"Master", "master"} -> "Master"
      [] role \in {"Slave", "slave", "SlaveOppositeMaster", "slaveoppositemaster"}
            -> "SlaveOppositeMaster"
      [] role \in {"SlaveEqualMaster", "slaveequalmaster"} -> "SlaveEqualMaster"
      [] role \in {"NotConfigured", "notconfigured"} -> "NotConfigured"

\* the role of a device in a device list
RoleIn(list, serial) ==
    list[CHOOSE i \in 1..Len(list) : list[i].serial_number = serial].role

\* the role a built configuration must give a device that had role `role`
RoleAfterSwap(serial, role) ==
    IF serial = zm.new THEN "Master"
    ELSE IF serial = zm.old THEN ApiName(RoleIn(zm.objects, zm.new))
    ELSE ApiName(role)

\* C9: the configuration built for a master change lists every device of the
\* house, in the rooms array and in the zones array when the house has one,
\* with role Master for the new master, the API name of the role the new master
\* had (in coordinator.data when the change was asked for) for the old master,
\* and the API name of its own role for every other device.
HouseConfigSwapsRoles ==
    zm.pc = "post" =>
        /\ Len(zm.config.rooms) = Len(house.rooms)
        /\ \A r \in 1..Len(house.rooms) :
              /\ Len(zm.config.rooms[r].devices) = Len(house.rooms[r].devices)
              /\ \A d \in 1..Len(house.rooms[r].devices) :
                    LET dev == house.rooms[r].devices[d]
                        out == zm.config.rooms[r].devices[d]
                    IN /\ out.serialNumber = dev.serial_number
                       /\ out.role = RoleAfterSwap(dev.serial_number, dev.role)
        /\ Len(zm.config.zones) = Len(house.zones)
        /\ \A z \in 1..Len(house.zones) : \A r \in 1..Len(house.zones[z].rooms) :
              /\ Len(zm.config.zones[z].rooms[r].devices) = Len(house.zones[z].rooms[r].devices)
              /\ \A d \in 1..Len(house.zones[z].rooms[r].devices) :
                    LET dev == house.zones[z].rooms[r].devices[d]
                        out == zm.config.zones[z].rooms[r].devices[d]
                    IN /\ out.serialNumber = dev.serialNumber
                       /\ out.role = RoleAfterSwap(dev.serialNumber, dev.role)

\* a configuration was built for a house with a zones array, where the old
\* master is Master, the new master is not, and the third device is neither
HouseConfigSwapsRolesWitness ==
    /\ zm.pc = "post"
    /\ house.zones # << >>
    /\ RoleIn(DevicesOf(house), zm.old) = "Master"
    /\ RoleIn(DevicesOf(house), zm.new) = "SlaveEqualMaster"
    /\ \E serial \in Serials(DevicesOf(house)) \ {zm.old, zm.new} :
          RoleIn(DevicesOf(house), serial) = "NotConfigured"

\* the role, lower-cased, that the validation saw for a device
SeenRole(serial) ==
    IF zm.seen.present /\ serial \in Serials(zm.seen.list)
    THEN Lower(RoleIn(zm.seen.list, serial))
    ELSE "none"

SlaveRoles == {"slave", "slaveoppositemaster", "slaveequalmaster"}

\* C10 (as claimed): _attempt_master_change returns True only if the device
\* data read after the configuration was applied shows the new master as
\* master and the former master with the role the new master had before the
\* change, or a compatible slave role. Stated for the calls the select entity
\* makes: the old master is a master and the new master is not.
TrueMeansRolesSwapped ==
    (/\ zm.result = "True"
     /\ Lower(RoleIn(zm.objects, zm.old)) = "master"
     /\ Lower(RoleIn(zm.objects, zm.new)) # "master") =>
        /\ SeenRole(zm.new) = "master"
        /\ LET expected == Lower(RoleIn(zm.objects, zm.new))
           IN \/ SeenRole(zm.old) = expected
              \/ expected \in SlaveRoles /\ SeenRole(zm.old) \in SlaveRoles

\* C10 (amended): _attempt_master_change returns True only if the device data
\* read after the configuration was applied shows the new master as master;
\* the former master's role is compared and a mismatch only logged.
TrueMeansNewMaster ==
    zm.result = "True" => SeenRole(zm.new) = "master"

\* the change returned True with the former master seen in the new master's
\* former role
TrueMeansNewMasterWitness ==
    /\ zm.result = "True"
    /\ SeenRole(zm.old) = Lower(RoleIn(zm.objects, zm.new))
    /\ SeenRole(zm.old) # "master"

(***************************************************************************)
(* zone_master_select.py: the ZoneMasterDeviceSelect entity of zone 0      *)
(***************************************************************************)
\* str.title() on a lower-cased role
Title(role) ==
    CASE role = "master" -> "Master"
      [] role = "slave" -> "Slave"
      [] role = "slaveequalmaster" -> "Slaveequalmaster"
      [] role = "slaveoppositemaster" -> "Slaveoppositemaster"
      [] role = "notconfigured" -> "Notconfigured"
      [] OTHER -> role

\* ZoneMasterInfo.get_device_options: "name (Role)", kept as its two parts
get_device_options(zone_info) ==
    IF zone_info.available_devices = << >>
    THEN { [name |-> "No devices available", role |-> ""] }
    ELSE { [name |-> zone_info.available_devices[i].name,
            role |-> Title(zone_info.available_devices[i].role)] :
           i \in 1..Len(zone_info.available_devices) }

\* option.split(' (')[0]
device_name_from_option(option) == option.name

\* the device_info records _refresh_zone_info collects for a zone
ZoneDevices(list, zone_index) ==
    LET Upto[i \in 0..Len(list)] ==
            IF i = 0 THEN << >>
            ELSE IF list[i].zone_index = zone_index
                 THEN Append(Upto[i - 1], [serial |-> list[i].serial_number,
                                           name |-> names[list[i].serial_number],
                                           role |-> Lower(list[i].role)])
                 ELSE Upto[i - 1]
    IN Upto[Len(list)]

\* _refresh_zone_info: nothing changes without device data; the current master
\* is the last device of the zone whose role is master
refresh_zone_info(zone_info, d) ==
    IF ~d.present \/ d.list = << >> THEN zone_info
    ELSE LET zone_devices == ZoneDevices(d.list, zone_info.zone_index)
             masters == { i \in 1..Len(zone_devices) : zone_devices[i].role = "master" }
         IN [ zone_index |-> zone_info.zone_index,
              available_devices |-> zone_devices,
              device_count |-> Len(zone_devices),
              current_master_serial |->
                  IF masters = {} THEN "None"
                  ELSE zone_devices[CHOOSE i \in masters : \A j \in masters : j <= i].serial,
              is_configurable |-> Len(zone_devices) > 1 ]

\* the serial of the first device whose name is the option's
selected_device_serial(zone_info, option) ==
    LET available_devices == zone_info.available_devices
        matching == { i \in 1..Len(available_devices) :
                        available_devices[i].name = device_name_from_option(option) }
    IN IF matching = {} THEN "None"
       ELSE available_devices[CHOOSE i \in matching : \A j \in matching : i <= j].serial

\* the return of async_select_option that the refreshed zone information
\* leads to, or "attempt" when _attempt_master_change is called
EarlyReturn(zone_info, option) ==
    CASE ~zone_info.is_configurable -> "not configurable"
      [] selected_device_serial(zone_info, option) = "None" -> "not found"
      [] selected_device_serial(zone_info, option) = zone_info.current_master_serial
            -> "already master"
      [] zone_info.current_master_serial = "None" -> "no master"
      [] OTHER -> "attempt"

NoOption == [name |-> "", role |-> ""]

\* the entity of a zone, as ZoneMasterDeviceSelect.__init__ leaves it
NewEntity(zone_info) ==
    [update_in_progress |-> FALSE, zone_info |-> zone_info,
     n |-> 0, option |-> NoOption, returned |-> "none"]

\* the finally clause: the flag is reset and the state written, which reads
\* current_option and so refreshes the zone information
Finally(e, d) ==
    [e EXCEPT !.update_in_progress = FALSE,
              !.zone_info = refresh_zone_info(@, d)]

\* async_select_option up to its first await or, when nothing is awaited, to
\* its return
ZoneMasterDeviceSelect_async_select_option(option) ==
    LET called == [ent EXCEPT !.n = @ + 1, !.option = option]
        zone_info == refresh_zone_info(ent.zone_info, data)
        returns == EarlyReturn(zone_info, option)
        refreshed == [called EXCEPT !.zone_info = zone_info, !.returned = returns]
    IN
    /\ ent.n < MaxSelects
    /\ IF ent.update_in_progress
       THEN /\ ent' = [called EXCEPT !.returned = "in progress"]
            /\ UNCHANGED << calls, later, cached_data, last_update_time, data, cloud,
                            sel, shown, house, zm >>
       ELSE IF returns # "attempt"
       THEN /\ ent' = Finally(refreshed, data)
            /\ UNCHANGED << calls, later, cached_data, last_update_time, data, cloud,
                            sel, shown, house, zm >>
       ELSE /\ AttemptMasterChange(zone_info.current_master_serial,
                                   selected_device_serial(zone_info, option))
            /\ ent' = IF zm'.pc = "idle" THEN Finally(refreshed, data)
                      ELSE [refreshed EXCEPT !.update_in_progress = TRUE]

\* when the running _attempt_master_change returns, the finally clause of
\* async_select_option runs in the same step
SelectContinues ==
    ent' = IF zm'.pc = "idle" THEN Finally(ent, data) ELSE ent

\* the steps of the _attempt_master_change that async_select_option awaits
SelectHousesReturns == HousesReturns /\ SelectContinues
SelectPostReturns == PostReturns /\ SelectContinues
SelectAlternativeUpdates == AlternativeUpdates /\ SelectContinues
SelectValidateRoleChange == ValidateRoleChange /\ SelectContinues

\* a coordinator update writes the entity's state, which refreshes it
CoordinatorUpdates ==
    /\ CoordinatorRefresh
    /\ ent' = [ent EXCEPT !.zone_info = refresh_zone_info(@, data')]

ZoneRoles == {"Master", "Slave"}

\* one house, two rooms, three devices; the second and third device are in
\* zone 0 or in zone 1
ZoneHouses ==
    { [ zones |-> << >>,
        rooms |-> << [ id |-> 1,
                       devices |-> << [serial_number |-> "d1", zone_index |-> 0, role |-> r1],
                                      [serial_number |-> "d2", zone_index |-> z2, role |-> r2] >> ],
                     [ id |-> 2,
                       devices |-> << [serial_number |-> "d3", zone_index |-> z3, role |-> r3] >> ]
                  >> ] :
        r1 \in ZoneRoles, r2 \in ZoneRoles, r3 \in ZoneRoles,
        z2 \in 0..1, z3 \in 0..1 }

\* the second device has the name of the first or a name of its own
ZoneNames ==
    { ("d1" :> "A") @@ ("d2" :> n2) @@ ("d3" :> "C") : n2 \in {"A", "B"} }

\* the options a user can pick: those the entity offers, and a stale one
ZoneOptions == get_device_options(ent.zone_info) \cup { [name |-> "X", role |-> ""] }

ZoneInit ==
    /\ CallsAtRest
    /\ house \in ZoneHouses
    /\ names \in ZoneNames
    /\ flow = Idle
    /\ zs = Idle
    /\ ap = Idle
    /\ data \in { SomeData(DevicesOf(house)), SomeData(<< >>) }
    /\ cached_data = data
    /\ last_update_time = 0
    /\ cloud = << >>
    /\ zm = NoChange
    /\ sel = Idle
    /\ shown = Idle
    /\ ent = NewEntity(refresh_zone_info(
                 [zone_index |-> 0, available_devices |-> << >>, device_count |-> 0,
                  current_master_serial |-> "None", is_configurable |-> FALSE],
                 SomeData(DevicesOf(house))))

ZoneNext ==
    \/ \E option \in ZoneOptions : ZoneMasterDeviceSelect_async_select_option(option)
    \/ SelectHousesReturns
    \/ SelectPostReturns
    \/ SelectAlternativeUpdates
    \/ SelectValidateRoleChange
    \/ CoordinatorUpdates

SpecZone == ZoneInit /\ [][ZoneNext]_vars

(***************************************************************************)
(* Properties of SpecZone                                                  *)
(***************************************************************************)
\* the devices of the entity's zone in coordinator.data
InZone ==
    { i \in 1..Len(data.list) : data.list[i].zone_index = ent.zone_info.zone_index }

\* the devices the option picked in this step displays: name and role
Picked ==
    { i \in InZone : /\ names[data.list[i].serial_number] = ent'.option.name
                     /\ Title(Lower(data.list[i].role)) = ent'.option.role }

\* the masters of the entity's zone in coordinator.data
ZoneMasters == { i \in InZone : Lower(data.list[i].role) = "master" }

\* the cases in which a call must send nothing; the zone's master is the one
\* master of the zone
NoRequestCase ==
    \/ ent.update_in_progress
    \/ Cardinality(InZone) = 1
    \/ \A i \in InZone : names[data.list[i].serial_number] # ent'.option.name
    \/ Cardinality(ZoneMasters) = 1 /\ Picked = ZoneMasters
    \/ ZoneMasters = {}

\* a step sends a request to the cloud when the master change comes to await
\* houses(), the POST or the alternative requests
SendsRequest ==
    /\ zm'.pc \in {"houses", "post", "alternatives"}
    /\ zm'.pc # zm.pc

\* C11: a call of ZoneMasterDeviceSelect.async_select_option sends no request
\* to the cloud (and leaves its house as it is) when a change is in progress
\* on the entity, when the zone has a single device, when the option matches
\* no device of the zone, when the picked device is already the zone's
\* master, or when the zone has no master; and _update_in_progress is False
\* whenever no call that set it is running.
SelectSendsNoRequest ==
    /\ [][(ent'.n = ent.n + 1 /\ NoRequestCase) => (~SendsRequest /\ house' = house)]_vars
    /\ [](ent.update_in_progress => zm.pc # "idle")

(***************************************************************************)
(* config_flow.py: AmbientikaFlowHandler                                   *)
(***************************************************************************)
Usernames == {"u1", "u2"}
Passwords == {"p1", "p2"}

NoInput == [username |-> "", password |-> ""]
NoEntry == [title |-> "", username |-> "", password |-> "",
            sync_zones_to_floors |-> FALSE, sync_rooms_to_areas |-> FALSE]
NoErrors == "none"

\* what is known of the last pairing attempt, kept for the properties only
NoPairing == [event |-> "none", cause |-> "none", count |-> 0, input |-> NoInput]

\* the flow handler after __init__, no step run yet
NewFlow ==
    [result |-> "none", step_id |-> "none", errors |-> NoErrors, reason |-> "",
     user_input |-> NoInput, entry |-> NoEntry, submitted |-> NoInput,
     pc |-> "idle", retry_count |-> 0, api_client |-> "None", session |-> "None",
     n |-> 0, paired |-> NoPairing]

\* the except clauses of async_step_user
FlowHandles(exc) ==
    CASE exc = "AmbientikaApiClientAuthenticationError" -> "auth"
      [] exc = "AmbientikaApiClientError" -> "unknown"
      [] OTHER -> "unknown"

\* async_show_form
ShowForm(f, step_id, errors) ==
    [f EXCEPT !.result = "form", !.step_id = step_id, !.errors = errors]

\* async_step_user after the pairing attempt: with an error the user form is
\* shown again, without devices the flow aborts, else the input is stored and
\* async_step_zone_sync shows its form
AfterPairing_NoDeviceCheck(f, errors, count) ==
    IF errors # NoErrors THEN ShowForm(f, "user", errors)
    ELSE ShowForm([f EXCEPT !.user_input = f.submitted], "zone_sync", NoErrors)
AfterPairing(f, errors, count) ==
    IF errors # NoErrors THEN ShowForm(f, "user", errors)
    ELSE IF count = 0
    THEN [f EXCEPT !.result = "abort", !.step_id = "none",
                   !.reason = "no_supported_devices_found"]
    ELSE ShowForm([f EXCEPT !.user_input = f.submitted], "zone_sync", NoErrors)

\* the variables the config flow leaves alone
FlowFrame ==
    UNCHANGED << calls, cached_data, last_update_time, data, cloud, sel, shown, house, zm,
                 ent, names, zs, ap >>

\* async_step_user without input: the empty user form
StepUserShown ==
    /\ flow.result = "none"
    /\ flow' = ShowForm(flow, "user", NoErrors)
    /\ FlowFrame

\* async_step_user with input, up to the first await of _test_pairing: a new
\* client, which has to authenticate
StepUserSubmit(user_input) ==
    /\ flow.result = "form" /\ flow.step_id = "user" /\ flow.pc = "idle"
    /\ flow.n < MaxSubmits
    /\ flow' = [flow EXCEPT !.submitted = user_input, !.n = @ + 1,
                            !.pc = "auth", !.retry_count = 0,
                            !.api_client = "None", !.session = "Open",
                            !.paired = [NoPairing EXCEPT !.event = "running",
                                                         !.input = user_input]]
    /\ FlowFrame

\* async_get_data raises: the client is cleaned up and the except clauses of
\* async_step_user run in the same step
PairingFails(cause, inner) ==
    LET exc == GetDataRaises(inner)
        cl == Cleanup([api_client |-> flow.api_client, session |-> flow.session])
        over == [flow EXCEPT !.pc = "idle", !.retry_count = 0,
                             !.api_client = cl.api_client, !.session = cl.session,
                             !.paired = [@ EXCEPT !.event = "error", !.cause = cause]]
    IN
    /\ flow' = AfterPairing(over, FlowHandles(exc), 0)
    /\ FlowFrame

\* authenticate returns Success
PairingAuthOk ==
    /\ flow.pc = "auth"
    /\ flow' = [flow EXCEPT !.pc = "houses", !.api_client = "Authed"]
    /\ FlowFrame

\* authenticate returns Failure: the credentials are rejected
PairingAuthRejected ==
    /\ flow.pc = "auth"
    /\ PairingFails("rejected", EnsureClientRaises("rejected"))

\* authenticate raises aiohttp.ClientError or asyncio.TimeoutError
PairingAuthConnError ==
    /\ flow.pc = "auth"
    /\ IF flow.retry_count + 1 < max_retries
       THEN /\ flow' = [flow EXCEPT !.pc = "backoff", !.retry_count = @ + 1]
            /\ FlowFrame
       ELSE PairingFails("connection", EnsureClientRaises("connection"))

\* authenticate raises anything else
PairingAuthOtherError ==
    /\ flow.pc = "auth"
    /\ PairingFails("auth_exception", EnsureClientRaises("exception"))

\* asyncio.sleep(wait_time) is over
PairingBackoffDone ==
    /\ flow.pc = "backoff"
    /\ flow' = [flow EXCEPT !.pc = "auth"]
    /\ FlowFrame

\* houses() returns Failure, or raises
PairingHousesFail ==
    /\ flow.pc = "houses"
    /\ \E inner \in {"Failure", "aiohttp.ClientError", "asyncio.TimeoutError", "Exception"} :
          PairingFails("houses", inner)

\* houses() returns the houses, with count devices in their rooms
PairingHousesOk(count) ==
    /\ flow.pc = "houses"
    /\ flow' = AfterPairing([flow EXCEPT !.pc = "idle",
                                         !.paired = [@ EXCEPT !.event = "devices",
                                                              !.count = count]],
                            NoErrors, count)
    /\ FlowFrame

\* async_step_zone_sync with input: the entry is created
StepZoneSyncSubmit(sync_zones_to_floors, sync_rooms_to_areas) ==
    /\ flow.result = "form" /\ flow.step_id = "zone_sync"
    /\ flow' = [flow EXCEPT !.result = "create_entry", !.step_id = "none",
                            !.entry = [title |-> flow.user_input.username,
                                       username |-> flow.user_input.username,
                                       password |-> flow.user_input.password,
                                       sync_zones_to_floors |-> sync_zones_to_floors,
                                       sync_rooms_to_areas |-> sync_rooms_to_areas]]
    /\ FlowFrame

FlowInit ==
    /\ CallsInit
    /\ cached_data = NoData
    /\ last_update_time = 0
    /\ data = NoData
    /\ cloud = << >>
    /\ sel = Idle
    /\ shown = Idle
    /\ house = Idle
    /\ zm = Idle
    /\ ent = Idle
    /\ names = << >>
    /\ flow = NewFlow
    /\ zs = Idle
    /\ ap = Idle

FlowNext ==
    \/ StepUserShown
    \/ \E username \in Usernames, password \in Passwords :
          StepUserSubmit([username |-> username, password |-> password])
    \/ PairingAuthOk
    \/ PairingAuthRejected
    \/ PairingAuthConnError
    \/ PairingAuthOtherError
    \/ PairingBackoffDone
    \/ PairingHousesFail
    \/ \E count \in 0..NumDevices : PairingHousesOk(count)
    \/ \E sync_zones_to_floors \in BOOLEAN, sync_rooms_to_areas \in BOOLEAN :
          StepZoneSyncSubmit(sync_zones_to_floors, sync_rooms_to_areas)

SpecFlow == FlowInit /\ [][FlowNext]_vars

(***************************************************************************)
(* Properties of SpecFlow                                                  *)
(***************************************************************************)
\* C12: the flow has created an entry only if the last pairing attempt
\* returned at least one device, and the entry holds the credentials of that
\* attempt; after a pairing attempt that raised, the user form is shown with
\* an error and there is no entry; after a pairing attempt that returned no
\* device, the flow is aborted with reason no_supported_devices_found.
EntryOnlyAfterPairing ==
    /\ flow.result = "create_entry" =>
          /\ flow.paired.event = "devices"
          /\ flow.paired.count >= 1
          /\ flow.entry.username = flow.paired.input.username
          /\ flow.entry.password = flow.paired.input.password
    /\ flow.result # "create_entry" => flow.entry = NoEntry
    /\ flow.paired.event = "error" =>
          /\ flow.result = "form"
          /\ flow.step_id = "user"
          /\ flow.errors # NoErrors
    /\ (flow.paired.event = "devices" /\ flow.paired.count = 0) =>
          /\ flow.result = "abort"
          /\ flow.reason = "no_supported_devices_found"

\* an entry was created at the second attempt, the first having ended in an
\* error
EntryOnlyAfterPairingWitness ==
    /\ flow.result = "create_entry"
    /\ flow.n = 2
    /\ flow.paired.count >= 1

\* C13: after a pairing attempt that failed, the error base of the user form
\* is auth when the cloud rejected the credentials, and unknown for any other
\* failure.
PairingErrorBase ==
    flow.paired.event = "error" =>
        flow.errors = IF flow.paired.cause = "rejected" THEN "auth" ELSE "unknown"

(***************************************************************************)
(* zone_sync.py: AmbientikaZoneSync                                        *)
(***************************************************************************)
\* a sequence without its repeated elements, and the concatenation of a
\* sequence of sequences
Distinct(s) ==
    LET F[i \in 0..Len(s)] ==
            IF i = 0 THEN << >>
            ELSE IF \E j \in 1..(i - 1) : s[j] = s[i] THEN F[i - 1]
                 ELSE Append(F[i - 1], s[i])
    IN F[Len(s)]
Concat(ss) ==
    LET F[i \in 0..Len(ss)] == IF i = 0 THEN << >> ELSE F[i - 1] \o ss[i]
    IN F[Len(ss)]

\* str.lower() on the floor and zone names of the model
LowerName(s) ==
    CASE s = "Ground Floor" -> "ground floor"
      [] s = "Zone 1" -> "zone 1"
      [] s = "Living" -> "living"
      [] s = "Bed" -> "bed"
      [] OTHER -> s

\* f"{n}" for the ids of the model
IdStr(n) == CASE n = 0 -> "0" [] n = 1 -> "1" [] n = 2 -> "2" [] OTHER -> "n"

\* sorted(room_names)
SortedNames(S) == SelectSeq(<< "Bed", "Living" >>, LAMBDA x : x \in S)

\* the hub classes of this integration have neither zone_data nor _zone_data,
\* so the zone_names of _sync_floors and _sync_areas stay empty
zone_names == << >>

\* f"Zone {zone_id}" if zone_id != 0 else "Ground Floor"
ZoneLabel(zone_id) == IF zone_id # 0 THEN << "Zone", IdStr(zone_id) >> ELSE << "Ground Floor" >>
FloorName(zone_id) == IF zone_id # 0 THEN "Zone 1" ELSE "Ground Floor"

\* the id a registry gives what it creates: the slug of the name
FloorId(name) == LowerName(name)
AreaSlug(name) == [ i \in 1..Len(name) |-> LowerName(name[i]) ]

\* a ZoneMappingInfo
ZoneMapping(key, zone_id, room_ids, room_names) ==
    [key |-> key, ambientika_zone_id |-> zone_id, ambientika_room_ids |-> room_ids,
     ambientika_room_names |-> room_names, ha_floor_id |-> "None", ha_area_ids |-> << >>,
     last_synced |-> FALSE]

\* _build_zone_mappings on the houses it got: with zones, one mapping for each
\* zone index of the devices in the zones' rooms; without, one for each room
\* that has devices
HouseMappings(h) ==
    IF h.zones # << >>
    THEN LET zone_rooms == Concat([ z \in 1..Len(h.zones) |-> h.zones[z].rooms ])
             seen == Concat([ r \in 1..Len(zone_rooms) |->
                        [ d \in 1..Len(zone_rooms[r].devices) |->
                            [zone |-> zone_rooms[r].devices[d].zoneIndex,
                             room_id |-> zone_rooms[r].id,
                             room_name |-> zone_rooms[r].name] ] ])
             zone_ids == Distinct([ i \in 1..Len(seen) |-> seen[i].zone ])
         IN [ k \in 1..Len(zone_ids) |->
                ZoneMapping([kind |-> "zone", id |-> zone_ids[k]], zone_ids[k],
                            { seen[i].room_id : i \in { j \in 1..Len(seen) :
                                                          seen[j].zone = zone_ids[k] } },
                            { seen[i].room_name : i \in { j \in 1..Len(seen) :
                                                            seen[j].zone = zone_ids[k] } }) ]
    ELSE LET with_devices == SelectSeq(h.rooms, LAMBDA room : room.devices # << >>)
         IN [ k \in 1..Len(with_devices) |->
                ZoneMapping([kind |-> "room", id |-> with_devices[k].id], 0,
                            { with_devices[k].id }, { with_devices[k].name }) ]
build_zone_mappings(houses) ==
    Concat([ i \in 1..Len(houses) |-> HouseMappings(houses[i]) ])

\* _build_device_mappings: every device of the hub, with its area in the
\* device registry
build_device_mappings(z) ==
    [ i \in 1..Len(devices) |->
        [ambientika_serial |-> devices[i].serial_number,
         ambientika_zone_id |-> devices[i].zone_index,
         ambientika_room_id |-> devices[i].room_id,
         ha_device_id |-> devices[i].serial_number,
         ha_area_id |-> z.device_areas[devices[i].serial_number]] ]

\* the tests that open async_sync_zones, _sync_floors and _sync_areas
SyncInProgress_NoCheck(z) == FALSE
SyncInProgress(z) == z.sync_in_progress
FloorCreationDisabled_OneFlag(z) == ~z.create_missing_floors
FloorCreationDisabled(z) == ~z.create_missing_floors \/ ~z.sync_zones_to_floors
AreaCreationDisabled(z) == ~z.create_missing_areas \/ ~z.sync_rooms_to_areas

\* every mapping of a zone gets the floor
WithFloor(mappings, zone_id, floor_id) ==
    [ i \in 1..Len(mappings) |->
        IF mappings[i].ambientika_zone_id = zone_id
        THEN [mappings[i] EXCEPT !.ha_floor_id = floor_id]
        ELSE mappings[i] ]

\* _sync_floors; registry_ok tells whether floor_registry.async_create works
sync_floors(z, registry_ok) ==
    LET all_zones == { z.zone_mappings[i].ambientika_zone_id : i \in 1..Len(z.zone_mappings) }
        zones_to_create_floors ==
            IF Cardinality(all_zones) > 1 THEN all_zones
            ELSE {}   \* a single zone has no name in zone_names
        order == SelectSeq(<< 0, 1, 2 >>, LAMBDA zone_id : zone_id \in zones_to_create_floors)
        F[i \in 0..Len(order)] ==
            IF i = 0 THEN z
            ELSE LET s == F[i - 1]
                     floor_name == FloorName(order[i])
                     existing == { j \in 1..Len(s.floors) :
                                     LowerName(s.floors[j].name) = LowerName(floor_name) }
                 IN IF existing = {}
                    THEN IF registry_ok
                         THEN [s EXCEPT
                                 !.floors = Append(@, [floor_id |-> FloorId(floor_name),
                                                       name |-> floor_name]),
                                 !.zone_mappings = WithFloor(@, order[i], FloorId(floor_name)),
                                 !.sync_results.floors_created = @ + 1]
                         ELSE s
                    ELSE [s EXCEPT
                            !.zone_mappings =
                                WithFloor(@, order[i],
                                          s.floors[CHOOSE j \in existing :
                                                     \A k \in existing : j <= k].floor_id)]
    IN IF FloorCreationDisabled(z) THEN z ELSE F[Len(order)]

\* _sync_areas; registry_ok tells whether the area registry calls work
sync_areas(z, registry_ok) ==
    LET F[i \in 0..Len(z.zone_mappings)] ==
            IF i = 0 THEN z
            ELSE LET s == F[i - 1]
                     mapping == s.zone_mappings[i]
                     mapping_type == mapping.key.kind
                     area_name ==
                         IF mapping_type = "room"
                         THEN SortedNames(mapping.ambientika_room_names)
                         ELSE ZoneLabel(mapping.ambientika_zone_id)
                              \o << "-" >> \o SortedNames(mapping.ambientika_room_names)
                     area_id ==
                         IF mapping_type = "room"
                         THEN << "ambientika_zone_", "room", IdStr(mapping.key.id) >>
                         ELSE << "ambientika_zone_", IdStr(mapping.ambientika_zone_id) >>
                     existing == { j \in 1..Len(s.areas) :
                                     \/ s.areas[j].id = area_id
                                     \/ AreaSlug(s.areas[j].name) = AreaSlug(area_name) }
                     floor_wanted == /\ mapping_type = "zone"
                                     /\ s.sync_zones_to_floors
                                     /\ mapping.ha_floor_id # "None"
                 IN IF existing = {}
                    THEN IF registry_ok
                         THEN [s EXCEPT
                                 !.areas = Append(@, [id |-> AreaSlug(area_name),
                                                      name |-> area_name,
                                                      floor_id |-> IF floor_wanted
                                                                   THEN mapping.ha_floor_id
                                                                   ELSE "None"]),
                                 !.zone_mappings[i].ha_area_ids = << AreaSlug(area_name) >>,
                                 !.sync_results.areas_created = @ + 1]
                         ELSE s
                    ELSE LET j == CHOOSE j \in existing : \A k \in existing : j <= k
                         IN [s EXCEPT
                               !.zone_mappings[i].ha_area_ids = << s.areas[j].id >>,
                               !.areas[j].floor_id =
                                   IF /\ floor_wanted
                                      /\ s.areas[j].floor_id # mapping.ha_floor_id
                                      /\ registry_ok
                                   THEN mapping.ha_floor_id ELSE @]
    IN IF AreaCreationDisabled(z) THEN z ELSE F[Len(z.zone_mappings)]

\* _sync_device_assignments
sync_device_assignments(z, registry_ok) ==
    LET F[i \in 0..Len(z.device_mappings)] ==
            IF i = 0 THEN z
            ELSE LET s == F[i - 1]
                     device_mapping == s.device_mappings[i]
                     key == IF device_mapping.ambientika_zone_id # 0
                            THEN [kind |-> "zone", id |-> device_mapping.ambientika_zone_id]
                            ELSE [kind |-> "room", id |-> device_mapping.ambientika_room_id]
                     found == { j \in 1..Len(s.zone_mappings) :
                                  /\ s.zone_mappings[j].key = key
                                  /\ s.zone_mappings[j].ha_area_ids # << >> }
                 IN IF found = {} THEN s
                    ELSE LET target_area_id ==
                                 s.zone_mappings[CHOOSE j \in found : TRUE].ha_area_ids[1]
                         IN IF device_mapping.ha_area_id # target_area_id /\ registry_ok
                            THEN [s EXCEPT
                                    !.device_areas[device_mapping.ambientika_serial] =
                                        target_area_id,
                                    !.device_mappings[i].ha_area_id = target_area_id,
                                    !.sync_results.devices_assigned = @ + 1]
                            ELSE s
    IN F[Len(z.device_mappings)]

NoResults ==
    [status |-> "none", reason |-> "", floors_created |-> 0, areas_created |-> 0,
     devices_assigned |-> 0]

\* async_sync_zones after _build_zone_mappings got its houses: the three sync
\* steps, the time stamps, the finally clause and the return
RunSync(z, houses, registry_ok) ==
    LET built == [z EXCEPT !.zone_mappings = build_zone_mappings(houses),
                           !.device_mappings = build_device_mappings(z),
                           !.sync_results = [NoResults EXCEPT !.status = "success"]]
        synced == sync_device_assignments(
                      sync_areas(sync_floors(built, registry_ok), registry_ok), registry_ok)
    IN [synced EXCEPT
          !.last_full_sync = TRUE,
          !.zone_mappings = [ i \in 1..Len(synced.zone_mappings) |->
                                [synced.zone_mappings[i] EXCEPT !.last_synced = TRUE] ],
          !.sync_in_progress = FALSE,
          !.active = @ - 1,
          !.returned = synced.sync_results]

\* async_sync_zones up to its first await, or to its return when it awaits
\* nothing: a call in progress makes it return at once; without an api client
\* there are no houses and nothing is awaited; else houses() is awaited
async_sync_zones(z, registry_ok) ==
    LET called == [z EXCEPT !.n = @ + 1]
        started == [called EXCEPT !.sync_in_progress = TRUE, !.active = @ + 1,
                                  !.zone_mappings = << >>]
    IN IF SyncInProgress(z)
       THEN [called EXCEPT !.returned = [NoResults EXCEPT !.status = "skipped",
                                                          !.reason = "sync_in_progress"]]
       ELSE IF client = "None" \/ api_client = "None"
       THEN RunSync(started, << >>, registry_ok)
       ELSE [started EXCEPT !.returned = NoResults]

\* the variables the zone sync leaves alone
SyncFrame ==
    UNCHANGED << calls, cached_data, last_update_time, data, cloud, sel, shown, house, zm,
                 ent, names, flow, ap >>

\* the sync_zones service: the two create flags are set, then the sync is called
SyncZonesService(create_missing_floors, create_missing_areas) ==
    /\ zs.n < MaxSyncs
    /\ \E registry_ok \in BOOLEAN :
          zs' = async_sync_zones([zs EXCEPT !.create_missing_floors = create_missing_floors,
                                            !.create_missing_areas = create_missing_areas],
                                 registry_ok)
    /\ SyncFrame

\* async_update_config, called when a switch is turned: the flags are set from
\* the entry data, and a changed sync flag calls the sync
UpdateConfig(sync_zones_to_floors, sync_rooms_to_areas) ==
    LET updated == [zs EXCEPT !.sync_zones_to_floors = sync_zones_to_floors,
                              !.sync_rooms_to_areas = sync_rooms_to_areas,
                              !.create_missing_areas = TRUE,
                              !.create_missing_floors = TRUE]
    IN
    /\ zs.n < MaxSyncs
    /\ IF \/ zs.sync_zones_to_floors # sync_zones_to_floors
          \/ zs.sync_rooms_to_areas # sync_rooms_to_areas
       THEN \E registry_ok \in BOOLEAN : zs' = async_sync_zones(updated, registry_ok)
       ELSE zs' = updated
    /\ SyncFrame

\* _periodic_sync: nothing while a sync is in progress; else the sync is
\* called when it is due
PeriodicSync(due) ==
    /\ zs.n < MaxSyncs
    /\ IF zs.sync_in_progress THEN zs' = zs
       ELSE IF Len(devices) # Len(zs.device_mappings) \/ due \/ ~zs.last_full_sync
       THEN \E registry_ok \in BOOLEAN : zs' = async_sync_zones(zs, registry_ok)
       ELSE zs' = zs
    /\ SyncFrame

\* houses() returns to _build_zone_mappings: the houses, a Failure (unwrap
\* raises, which is caught) or an exception (caught as well); the run goes on
\* to its end
SyncHousesReturn ==
    /\ zs.active > 0
    /\ \E res \in {"houses", "Failure", "raises"}, registry_ok \in BOOLEAN :
          zs' = RunSync(zs, IF res = "houses" THEN << house >> ELSE << >>, registry_ok)
    /\ SyncFrame

\* the task awaiting houses() is cancelled: only the finally clause runs
SyncCancelled ==
    /\ zs.active > 0
    /\ zs' = [zs EXCEPT !.sync_in_progress = FALSE, !.active = @ - 1]
    /\ SyncFrame

\* one house with two rooms of one device each; the house has zones or not,
\* and the second device is in zone 0 or 1
SyncRoom(id, name, zone) ==
    [id |-> id, name |-> name, devices |-> << [zoneIndex |-> zone] >>]
SyncHouses ==
    { [ zones |-> IF ~withZones THEN << >>
                  ELSE IF z2 = 0
                  THEN << [id |-> 0, rooms |-> << SyncRoom(1, "Living", 0),
                                                  SyncRoom(2, "Bed", 0) >>] >>
                  ELSE << [id |-> 0, rooms |-> << SyncRoom(1, "Living", 0) >>],
                          [id |-> 1, rooms |-> << SyncRoom(2, "Bed", 1) >>] >>,
        rooms |-> << SyncRoom(1, "Living", 0), SyncRoom(2, "Bed", z2) >> ] :
      withZones \in BOOLEAN, z2 \in 0..1 }

\* the floor and area registries before the first sync
SyncFloors == { << >>, << [floor_id |-> "ground floor", name |-> "ground floor"] >> }
SyncAreas ==
    { << >>,
      << [id |-> << "living" >>, name |-> << "Living" >>, floor_id |-> "None"] >>,
      << [id |-> << "ambientika_zone_", "1" >>, name |-> << "Attic" >>,
          floor_id |-> "None"] >> }

NewZoneSync ==
    [sync_in_progress |-> FALSE, last_full_sync |-> FALSE,
     zone_mappings |-> << >>, device_mappings |-> << >>,
     create_missing_areas |-> TRUE, create_missing_floors |-> TRUE,
     sync_zones_to_floors |-> TRUE, sync_rooms_to_areas |-> TRUE,
     floors |-> << >>, areas |-> << >>,
     device_areas |-> ("d1" :> << >>) @@ ("d2" :> << >>),
     sync_results |-> NoResults, returned |-> NoResults, active |-> 0, n |-> 0]

SyncInit ==
    /\ now = 0
    /\ client = "Client"
    /\ api_client \in {"None", "Authed"}
    /\ session = "Open"
    /\ lock_locked = FALSE
    /\ lock_waiters = << >>
    /\ house \in SyncHouses
    /\ devices = << [serial_number |-> "d1", zone_index |-> 0, room_id |-> 1],
                    [serial_number |-> "d2", zone_index |-> house.rooms[2].devices[1].zoneIndex,
                     room_id |-> 2] >>
    /\ pc = [p \in Procs |-> IF p = Login THEN "done" ELSE "idle"]
    /\ current_time = [p \in Procs |-> 0]
    /\ retry_count = [p \in Procs |-> 0]
    /\ wake_at = [p \in Procs |-> 0]
    /\ fetched = [p \in Procs |-> << >>]
    /\ outcome = NoOutcome
    /\ hist = InitHist
    /\ cached_data = NoData
    /\ last_update_time = 0
    /\ data = NoData
    /\ cloud = << >>
    /\ sel = Idle
    /\ shown = Idle
    /\ zm = Idle
    /\ ent = Idle
    /\ names = << >>
    /\ flow = Idle
    /\ ap = Idle
    /\ \E floors \in SyncFloors, areas \in SyncAreas,
          sync_zones_to_floors \in BOOLEAN, sync_rooms_to_areas \in BOOLEAN :
          zs = [NewZoneSync EXCEPT !.floors = floors, !.areas = areas,
                                   !.sync_zones_to_floors = sync_zones_to_floors,
                                   !.sync_rooms_to_areas = sync_rooms_to_areas]

SyncNext ==
    \/ \E due \in BOOLEAN : PeriodicSync(due)
    \/ \E create_missing_floors \in BOOLEAN, create_missing_areas \in BOOLEAN :
          SyncZonesService(create_missing_floors, create_missing_areas)
    \/ \E sync_zones_to_floors \in BOOLEAN, sync_rooms_to_areas \in BOOLEAN :
          UpdateConfig(sync_zones_to_floors, sync_rooms_to_areas)
    \/ SyncHousesReturn
    \/ SyncCancelled

SpecSync == SyncInit /\ [][SyncNext]_vars

\* what a sync may change outside the object itself: the registries, and the
\* mappings the object keeps
SyncedState(z) ==
    << z.floors, z.areas, z.device_areas, z.zone_mappings, z.device_mappings >>
SkippedResult ==
    [NoResults EXCEPT !.status = "skipped", !.reason = "sync_in_progress"]

\* C14: at most one run of async_sync_zones is active at any time; a call made
\* while a run is active returns status 'skipped' with reason
\* 'sync_in_progress' and changes neither the registries nor the mappings; and
\* _sync_in_progress is False whenever no run is active, that is after every
\* run that started has ended, successfully, with nothing fetched or cancelled
OneSyncAtATime ==
    /\ [](zs.active <= 1)
    /\ [](zs.active = 0 => ~zs.sync_in_progress)
    /\ [][(zs'.n = zs.n + 1 /\ zs.active > 0)
            => /\ zs'.returned = SkippedResult
               /\ SyncedState(zs') = SyncedState(zs)
               /\ zs'.active = zs.active]_vars
OneSyncAtATimeWitness ==
    /\ zs.active = 1
    /\ zs.sync_in_progress
    /\ zs.n = 2
    /\ zs.returned = SkippedResult

\* the floor an area has in the registry after a step, against before
AreaFloorsKept(before, after) ==
    \A j \in 1..Len(after.areas) :
        after.areas[j].floor_id =
            IF j <= Len(before.areas) THEN before.areas[j].floor_id ELSE "None"

\* C15: a step of the zone sync made with sync_zones_to_floors or
\* create_missing_floors off creates no floor and gives no area a floor, and a
\* step made with sync_rooms_to_areas or create_missing_areas off creates no
\* area
SwitchedOffCreatesNothing ==
    [][/\ (~zs'.sync_zones_to_floors \/ ~zs'.create_missing_floors)
            => (zs'.floors = zs.floors /\ AreaFloorsKept(zs, zs'))
       /\ (~zs'.sync_rooms_to_areas \/ ~zs'.create_missing_areas)
            => zs'.areas = zs.areas]_vars
SwitchedOffCreatesNothingWitness ==
    /\ ~zs.create_missing_floors
    /\ zs.sync_zones_to_floors
    /\ Len(house.zones) = 2
    /\ zs.returned.status = "success"
    /\ zs.sync_results.areas_created = 2
    /\ zs.floors = << >>
    /\ \A j \in 1..Len(zs.areas) : zs.areas[j].floor_id = "None"

(***************************************************************************)
(* zone_master_select.py: the role-update strategies of a master change    *)
(***************************************************************************)
\* the strategies in the order of the code
StrategyOrder == << "apply_config", "device_role", "house_put", "zone_config" >>

\* zone_endpoints of _try_zone_config_update
zone_endpoints(zone) ==
    << << "zones", IdStr(zone), "master" >>,
       << "zones", IdStr(zone), "configuration" >>,
       << "Device", "zone", IdStr(zone), "config" >> >>

\* a request sent to the cloud, and what came back
Sent(a, method, endpoint, body, res) ==
    [a EXCEPT !.requests = Append(@, [method |-> method, endpoint |-> endpoint,
                                      body |-> body, result |-> res])]

\* _apply_house_device_configuration returns; after a Success of the POST it
\* returns True whatever the alternatives did
ApplyReturns(a, result) == [a EXCEPT !.pc = "done", !.result = result]

\* a strategy of _try_alternative_role_update succeeded: it returns True at once
AlternativeSucceeds(a, strategy) ==
    ApplyReturns([a EXCEPT !.succeeded = @ \cup {strategy}], "True")

\* _try_house_put_update: coordinator.client is the AmbientikaApiClient, which
\* has no get_houses, so the call raises before any request and the except
\* clause returns False
try_house_put_update(a) == [a EXCEPT !.tried = Append(@, "house_put")]

\* _try_zone_config_update up to its first request: devices of different zones
\* make it return False
try_zone_config_update(a) ==
    LET entered == [a EXCEPT !.tried = Append(@, "zone_config")]
    IN IF a.old_zone # a.new_zone
       THEN ApplyReturns(entered, "True")
       ELSE [entered EXCEPT !.pc = "zone", !.endpoint = 1]

\* _try_alternative_role_update after the individual role updates failed: the
\* house PUT, then the zone endpoints
AfterDeviceRoleFails(a) == try_zone_config_update(try_house_put_update(a))

ApplyFrame ==
    UNCHANGED << calls, cached_data, last_update_time, data, cloud, sel, shown, house, zm,
                 ent, names, flow, zs >>

ApiResults == {"Success", "Failure", "raises"}

\* POST Device/apply-config returns: a Success starts the alternatives with
\* the individual role updates, anything else returns False
ApplyConfigPostReturns ==
    /\ ap.pc = "post"
    /\ \E res \in ApiResults :
          LET sent == Sent(ap, "POST", << "Device", "apply-config" >>, "house", res)
          IN ap' = IF res = "Success"
                   THEN [sent EXCEPT !.pc = "role_new",
                                     !.succeeded = @ \cup {"apply_config"},
                                     !.tried = Append(@, "device_role")]
                   ELSE ApplyReturns(sent, "False")
    /\ ApplyFrame

\* _try_device_role_update: the new master's role request returns
RoleNewReturns ==
    /\ ap.pc = "role_new"
    /\ \E res \in ApiResults :
          LET sent == Sent(ap, "POST", << "devices", ap.new, "role" >>, "master", res)
          IN ap' = IF res = "Success" THEN [sent EXCEPT !.pc = "role_old"]
                   ELSE AfterDeviceRoleFails(sent)
    /\ ApplyFrame

\* the old master's role request returns
RoleOldReturns ==
    /\ ap.pc = "role_old"
    /\ \E res \in ApiResults :
          LET sent == Sent(ap, "POST", << "devices", ap.old, "role" >>, ap.original, res)
          IN ap' = CASE res = "Success" -> AlternativeSucceeds(sent, "device_role")
                     [] res = "Failure" -> [sent EXCEPT !.pc = "rollback"]
                     [] OTHER -> AfterDeviceRoleFails(sent)
    /\ ApplyFrame

\* the rollback of the new master's role returns; the strategy failed
RollbackReturns ==
    /\ ap.pc = "rollback"
    /\ \E res \in ApiResults :
          ap' = AfterDeviceRoleFails(
                    Sent(ap, "POST", << "devices", ap.new, "role" >>, ap.original, res))
    /\ ApplyFrame

\* a zone endpoint returns: Success ends the loop, anything else goes on to
\* the next endpoint
ZoneEndpointReturns ==
    /\ ap.pc = "zone"
    /\ \E res \in ApiResults :
          LET sent == Sent(ap, "POST", zone_endpoints(ap.old_zone)[ap.endpoint], "master", res)
          IN ap' = IF res = "Success" THEN AlternativeSucceeds(sent, "zone_config")
                   ELSE IF ap.endpoint < Len(zone_endpoints(ap.old_zone))
                   THEN [sent EXCEPT !.endpoint = @ + 1]
                   ELSE ApplyReturns(sent, "True")
    /\ ApplyFrame

\* _apply_house_device_configuration about to post the configuration it built
\* for a change of master from old to new
NewApply(old, new, original, old_zone, new_zone) ==
    [pc |-> "post", old |-> old, new |-> new, original |-> original,
     old_zone |-> old_zone, new_zone |-> new_zone, tried |-> << "apply_config" >>,
     succeeded |-> {}, requests |-> << >>, endpoint |-> 0, result |-> "none"]

ApplyInit ==
    /\ CallsAtRest
    /\ cached_data = NoData
    /\ last_update_time = 0
    /\ data = NoData
    /\ cloud = << >>
    /\ sel = Idle
    /\ shown = Idle
    /\ house = Idle
    /\ zm = Idle
    /\ ent = Idle
    /\ names = << >>
    /\ flow = Idle
    /\ zs = Idle
    /\ \E original \in {"slave_equal_master", "slave_opposite_master"},
          new_zone \in 0..1 :
          ap = NewApply("d1", "d2", original, 0, new_zone)

ApplyNext ==
    \/ ApplyConfigPostReturns
    \/ RoleNewReturns
    \/ RoleOldReturns
    \/ RollbackReturns
    \/ ZoneEndpointReturns

SpecApply == ApplyInit /\ [][ApplyNext]_vars

\* whether a sequence begins another
IsPrefix(s, t) == Len(s) <= Len(t) /\ \A i \in 1..Len(s) : s[i] = t[i]

\* C16: the strategies are entered in the order POST Device/apply-config,
\* individual device role updates, house PUT, zone endpoints; a strategy is
\* entered only when every earlier one has failed, so nothing follows a
\* success; and a master change that ends without a success has entered all
\* four
StrategiesUntilFirstSuccess ==
    /\ IsPrefix(ap.tried, StrategyOrder)
    /\ \A i \in 1..Len(ap.tried) : \A j \in 1..(i - 1) : ap.tried[j] \notin ap.succeeded
    /\ (ap.pc = "done" /\ ap.succeeded = {}) => ap.tried = StrategyOrder

====
